---- MODULE Spec2Model ----
(***************************************************************************)
(* A model of the sample parsers (fiftyone/utils/data/parsers.py) and of   *)
(* the dynamic sample schema (fiftyone/core/sample.py).                    *)
(*                                                                         *)
(* Python values are tagged records; None is the record NoneV.  An         *)
(* operation's outcome is Ok(value) or Err(message kind): every exception  *)
(* the code raises is named after the message it carries.                  *)
(***************************************************************************)
EXTENDS Integers, Sequences, FiniteSets, TLC

VARIABLES
    \* ---- a sample parser (parsers.py) ----
    parser,     \* the constructor arguments of the parser instance
    cur,        \* SampleParser._current_sample
    cache,      \* LabeledImageTupleSampleParser._current_image_cache
    decodes,    \* history: images decoded since the last clear_sample()
    uses,       \* history: calls that asked for the image since then
    stale,      \* history: the cache the last with_sample() dropped
    plast,      \* history: the last parser call and what it returned
    \* ---- a collection's schema and one of its samples (sample.py) ----
    fields,         \* cls._fields: field name -> field
    fields_ordered, \* cls._fields_ordered
    sample,         \* a Sample: its field data, instance __dict__, _in_db
    saves,          \* history: the save() calls made
    created,        \* history: the fields created, in the order of the calls
    slast,          \* history: the last schema/sample call and its outcome
    nops,           \* history: the schema/sample calls made
    \* ---- an ingestion into a dataset (add_images / add_labeled_images) ----
    source,         \* samples: the records handed to the call
    run,            \* the call in progress: its arguments, status and error
    pos,            \* the records of the source consumed by the call
    positioned,     \* history: the records the call passed to with_sample()
    built,          \* history: the Sample parse_sample() built last
    store,          \* the Samples of the dataset, in the order they were added
    ensured,        \* history: the schema right after each pre-creation
    \* ---- several users of one collection or of one parser ----
    other,          \* a second Sample of the same collection
    workers,        \* the calls in progress of two workers or consumers
    \* ---- an export of a collection (collections.py) ----
    exported        \* history: the exporters export() invoked and its outcome

pvars == <<parser, cur, cache, decodes, uses, stale, plast>>
svars == <<fields, fields_ordered, sample, saves, created, slast, nops>>
ivars == <<source, run, pos, positioned, built, store, ensured>>
xvars == <<other, workers, exported>>
vars == <<parser, cur, cache, decodes, uses, stale, plast,
          fields, fields_ordered, sample, saves, created, slast, nops,
          source, run, pos, positioned, built, store, ensured,
          other, workers, exported>>

\* ------------------------------------------------------------------ bounds
\* detection dicts in the target of one record
MaxDetections == 2
\* get_image() calls that decode, per positioning, that the model follows
MaxDecodes == 2
\* calls asking for the image, per positioning, that the model follows
MaxUses == 3
\* schema/sample calls in one run that the model follows
MaxOps == 3
\* records of the source handed to an ingestion call
MaxRecords == 2
\* ingestion calls made on one dataset
MaxRuns == 2

\* ------------------------------------------------------------ Python values
\* no worker or consumer is at work, and export() was not called
NoWorkers == <<>>
NoExport == [tag |-> "None"]
NoneV == [tag |-> "None"]
Ok(v) == [tag |-> "ok", v |-> v]
Err(e) == [tag |-> "err", e |-> e]
PInt(i) == [tag |-> "int", i |-> i]
PStr(s) == [tag |-> "str", s |-> s]
PBool(b) == [tag |-> "bool", b |-> b]
PFloat(x) == [tag |-> "float", x |-> x]
PList == [tag |-> "list", items |-> <<>>]
PDict == [tag |-> "dict", items |-> <<>>]
\* no such key / attribute
Absent == [tag |-> "absent"]

\* image_or_path: the path to an image on disk, or an in-memory image
Path(p) == [tag |-> "str", s |-> p]
Image(a) == [tag |-> "ndarray", a |-> a]

\* etau.is_str(x)
is_str(x) == x.tag = "str"

\* etai.read(path): the image stored at a path
read(p) == Image(CASE p = "p1" -> "pixels1" [] p = "p2" -> "pixels2" [] OTHER -> "pixels0")

\* fom.ImageMetadata.build_for(path)
build_for(p) == [tag |-> "ImageMetadata", of |-> p]

\* str(i) of an integer
Digit(d) == CASE d = 0 -> "0" [] d = 1 -> "1" [] d = 2 -> "2" [] d = 3 -> "3"
              [] d = 4 -> "4" [] d = 5 -> "5" [] d = 6 -> "6" [] d = 7 -> "7"
              [] d = 8 -> "8" [] OTHER -> "9"
RECURSIVE NatStr(_)
NatStr(n) == IF n < 10 THEN Digit(n) ELSE NatStr(n \div 10) \o Digit(n % 10)
str(x) == IF x.tag = "str" THEN x.s
          ELSE IF x.i < 0 THEN "-" \o NatStr(-x.i) ELSE NatStr(x.i)

\* a float, held as the fraction num/den in lowest terms
RECURSIVE GCD(_, _)
GCD(a, b) == IF b = 0 THEN a ELSE GCD(b, a % b)
Float(n, d) == [tag |-> "float", num |-> n \div GCD(n, d), den |-> d \div GCD(n, d)]
num_of(v) == IF v.tag = "int" THEN v.i ELSE v.num
den_of(v) == IF v.tag = "int" THEN 1 ELSE v.den
\* v / k of a number and a positive integer (true division: a float)
truediv(v, k) == Float(num_of(v), den_of(v) * k)

\* ------------------------------------------------------------ parser classes
TupleParsers == {"LabeledImageTupleSampleParser", "ImageClassificationSampleParser",
                 "ImageDetectionSampleParser", "ImageLabelsSampleParser"}
StoreParsers == {"FiftyOneUnlabeledImageSampleParser", "FiftyOneLabeledImageSampleParser"}
UnlabeledParsers == {"ImageSampleParser", "FiftyOneUnlabeledImageSampleParser"}
LabeledParsers == TupleParsers \cup {"FiftyOneLabeledImageSampleParser"}
\* subclasses of the two interfaces, defined by a caller, whose has_image_path
\* is False
PathlessParsers == {"PathlessUnlabeledImageSampleParser", "PathlessLabeledImageSampleParser"}

NoClasses == <<>>
Classes == <<"cat", "dog">>
NoSelector == [tag |-> "None"]

Config(cls, classes, normalized, expand, sel, cm) ==
    [cls |-> cls, classes |-> classes, normalized |-> normalized, expand |-> expand,
     label_field_or_dict |-> sel, compute_metadata |-> cm,
     confidence_field |-> [tag |-> "None"], attributes_field |-> [tag |-> "None"]]

\* ImageDetectionSampleParser(confidence_field, attributes_field, classes,
\* normalized), the other field names at their defaults
DetectionConfig(classes, normalized, confidence_field, attributes_field) ==
    [Config("ImageDetectionSampleParser", classes, normalized, TRUE,
            [tag |-> "None"], FALSE)
        EXCEPT !.confidence_field = confidence_field,
               !.attributes_field = attributes_field]

\* label_field_or_dict of the store-native labeled parser: a field name, or a
\* dict of source field -> target key (its items in iteration order)
Selectors == {[tag |-> "str", s |-> "gt"],
              [tag |-> "dict", items |-> <<>>],
              [tag |-> "dict", items |-> << <<"gt", "k1">>, <<"pred", "k2">> >>],
              [tag |-> "dict", items |-> << <<"gt", "k1">>, <<"pred", "k1">> >>]}

ParserConfigs ==
    {Config("ImageSampleParser", NoClasses, TRUE, TRUE, NoSelector, FALSE),
     Config("LabeledImageTupleSampleParser", NoClasses, TRUE, TRUE, NoSelector, FALSE)}
    \cup {Config("ImageClassificationSampleParser", c, TRUE, TRUE, NoSelector, FALSE) :
            c \in {NoClasses, Classes}}
    \cup {Config("ImageDetectionSampleParser", NoClasses, n, TRUE, NoSelector, FALSE) :
            n \in BOOLEAN}
    \cup {Config("ImageLabelsSampleParser", NoClasses, TRUE, e, NoSelector, FALSE) :
            e \in BOOLEAN}
    \cup {Config("FiftyOneUnlabeledImageSampleParser", NoClasses, TRUE, TRUE, NoSelector, cm) :
            cm \in BOOLEAN}
    \cup {Config("FiftyOneLabeledImageSampleParser", NoClasses, TRUE, TRUE, s, cm) :
            s \in Selectors, cm \in BOOLEAN}

\* ------------------------------------------------------------------ records
ImagesOrPaths == {Path("p1"), Path("p2"), Image("pixelsA")}

LabelOf(l) == [tag |-> "Label", l |-> l]

\* one dict of a detection target: its label, its bounding box
\* <<top-left-x, top-left-y, width, height>> and, when it has them, its
\* confidence and its dict of attributes (the items, in iteration order)
DetectionObj(label, box, confidence, attributes) ==
    [label |-> label, bounding_box |-> box, confidence |-> confidence,
     attributes |-> attributes]
Box(x, y, w, h) == <<x, y, w, h>>
\* a box in pixels
PixelBox == Box(PInt(20), PInt(10), PInt(40), PInt(20))
Detection1 == DetectionObj(PStr("cat"), PixelBox, Absent, Absent)
\* a box in relative coordinates, and a box in pixels that reaches beyond
\* every image of the model
RelativeBox == Box(Float(1, 10), Float(1, 10), Float(1, 5), Float(1, 5))
WideBox == Box(PInt(150), PInt(60), PInt(100), PInt(80))
\* dicts of attributes: a value of each type _parse_attribute tells apart
NestedList == [tag |-> "list", items |-> <<PList>>]
Attributes1 == [tag |-> "dict",
                items |-> << <<"occluded", PBool(TRUE)>>, <<"color", PStr("red")>>,
                             <<"score", PFloat("3.5")>>, <<"parts", NestedList>> >>]
Attributes2 == [tag |-> "dict", items |-> << <<"count", PInt(3)>>, <<"note", NoneV>> >>]
DetectionObjs ==
    {DetectionObj(PInt(1), PixelBox, PFloat("0.9"), Attributes1),
     DetectionObj(PInt(5), RelativeBox, Absent, Attributes2),
     DetectionObj(PStr("dog"), WideBox, Absent, Absent)}
\* the targets of the detection parser: None, or a list of detection dicts
DetectionTargets ==
    {NoneV} \cup {[tag |-> "list", objs |-> o] :
                    o \in UNION {[1..n -> DetectionObjs] : n \in 0..MaxDetections}}
DetectionRecords ==
    {[tag |-> "tuple", image |-> i, label |-> l] :
        i \in ImagesOrPaths, l \in DetectionTargets}
DetectionConfigs ==
    {DetectionConfig(c, n, f[1], f[2]) :
        c \in {NoClasses, Classes}, n \in BOOLEAN,
        f \in {<<NoneV, NoneV>>, <<PStr("confidence"), PStr("attributes")>>}}

Payloads(cls) ==
    CASE cls = "LabeledImageTupleSampleParser" -> {NoneV, LabelOf("l1")}
      [] cls = "ImageClassificationSampleParser" ->
            {NoneV, PInt(0), PInt(5), PInt(-1), PStr("cat")}
      [] cls = "ImageDetectionSampleParser" ->
            {NoneV, [tag |-> "list", objs |-> <<Detection1>>]}
      [] OTHER -> {[tag |-> "ImageLabels", l |-> "il1"]}

\* a stored Sample handed to a store-native parser
StoredSample(fp, md, gt, pred) ==
    [tag |-> "Sample", filepath |-> fp, metadata |-> md, gt |-> gt, pred |-> pred]

Records(cls) ==
    IF cls = "ImageSampleParser" THEN ImagesOrPaths
    ELSE IF cls \in TupleParsers
    THEN {[tag |-> "tuple", image |-> i, label |-> l] : i \in ImagesOrPaths, l \in Payloads(cls)}
    ELSE {StoredSample(fp, md, gt, LabelOf("l2")) :
            fp \in {"p1", "p2"},
            md \in {NoneV, [tag |-> "ImageMetadata", of |-> "stored"]},
            gt \in {NoneV, LabelOf("l1")}}

\* ------------------------------------------------------- SampleParser (base)
\* current_sample: the record, or the no-current-sample error
current_sample(c) == IF c = NoneV THEN Err("NoCurrentSample") ELSE Ok(c)

\* clear_sample() of the class: the new <<_current_sample, _current_image_cache>>
\* (only the tuple-based parsers have, and reset, the image cache)
clear_sample_keeps_cache(cls, ch) == <<NoneV, ch>>
clear_sample(cls, ch) == IF cls \in TupleParsers THEN <<NoneV, NoneV>> ELSE <<NoneV, ch>>

\* with_sample(sample): clear_sample(), then the record is stored
with_sample_without_clear(cls, ch, r) == <<r, ch>>
with_sample(cls, ch, r) == <<r, clear_sample(cls, ch)[2]>>

\* ------------------------------------------- LabeledImageTupleSampleParser
\* _parse_image(image_or_path)
parse_image(iop) == IF is_str(iop) THEN read(iop.s) ELSE iop

\* _get_image()
get_image_of(c) ==
    IF current_sample(c).tag = "err" THEN current_sample(c) ELSE Ok(parse_image(c.image))

\* _current_image: the result, the cache afterwards, the decodes it made
\* [res: the image or the error, cache: the cache afterwards, n: decodes made,
\*  asked: 1, the call asked for the image]
current_image_no_memo(c, ch) ==
    IF get_image_of(c).tag = "err"
    THEN [res |-> get_image_of(c), cache |-> ch, n |-> 0, asked |-> 1]
    ELSE [res |-> get_image_of(c), cache |-> get_image_of(c).v, n |-> 1, asked |-> 1]
current_image(c, ch) ==
    IF ch # NoneV THEN [res |-> Ok(ch), cache |-> ch, n |-> 0, asked |-> 1]
    ELSE IF get_image_of(c).tag = "err"
    THEN [res |-> get_image_of(c), cache |-> ch, n |-> 0, asked |-> 1]
    ELSE [res |-> get_image_of(c), cache |-> get_image_of(c).v, n |-> 1, asked |-> 1]

\* ---------------------------------------------------------------- accessors
\* each accessor yields [res: what the call returns or raises,
\*   cache: _current_image_cache afterwards, n: decodes made, asked: 0 or 1]
Out(res, ch, n) == [res |-> res, cache |-> ch, n |-> n, asked |-> 0]

has_image_path(cls) == cls \notin PathlessParsers
has_image_metadata(cls) == cls \in StoreParsers

get_image(cfg, c, ch) ==
    IF cfg.cls \in TupleParsers THEN current_image(c, ch)
    ELSE IF current_sample(c).tag = "err" THEN Out(current_sample(c), ch, 0)
    ELSE IF cfg.cls = "ImageSampleParser" THEN Out(Ok(parse_image(c)), ch, 1)
    ELSE Out(Ok(read(c.filepath)), ch, 1)

get_image_path_of_images(cfg, c) ==
    IF current_sample(c).tag = "err" THEN current_sample(c)
    ELSE IF cfg.cls \in StoreParsers THEN Ok(Path(c.filepath))
    ELSE Ok(IF cfg.cls = "ImageSampleParser" THEN c ELSE c.image)
get_image_path(cfg, c) ==
    IF current_sample(c).tag = "err" THEN current_sample(c)
    ELSE IF cfg.cls \in StoreParsers THEN Ok(Path(c.filepath))
    ELSE LET image_or_path == IF cfg.cls = "ImageSampleParser" THEN c ELSE c.image
         IN  IF is_str(image_or_path) THEN Ok(image_or_path) ELSE Err("NotAPath")

get_image_metadata_without_capability_check(cfg, c) ==
    IF current_sample(c).tag = "err" THEN current_sample(c)
    ELSE IF ~has_image_metadata(cfg.cls) THEN Ok(NoneV)
    ELSE IF c.metadata = NoneV /\ cfg.compute_metadata THEN Ok(build_for(c.filepath))
    ELSE Ok(c.metadata)
get_image_metadata(cfg, c) ==
    IF ~has_image_metadata(cfg.cls) THEN Err("NoImageMetadata")
    ELSE IF current_sample(c).tag = "err" THEN current_sample(c)
    ELSE IF c.metadata = NoneV /\ cfg.compute_metadata THEN Ok(build_for(c.filepath))
    ELSE Ok(c.metadata)

\* ImageClassificationSampleParser._parse_label(target)
classification_parse_label_clamps(classes, target) ==
    IF target = NoneV THEN NoneV
    ELSE LET n == Len(classes)
             found == classes # NoClasses /\ target.tag = "int"
                      /\ target.i >= -n /\ target.i < n
             idx == IF target.i >= 0 THEN target.i + 1 ELSE n + target.i + 1
         IN  [tag |-> "Classification",
              label |-> IF found THEN classes[idx]
                        ELSE IF classes # NoClasses THEN classes[n] ELSE str(target)]
classification_parse_label(classes, target) ==
    IF target = NoneV THEN NoneV
    ELSE LET n == Len(classes)
             found == classes # NoClasses /\ target.tag = "int"
                      /\ target.i >= -n /\ target.i < n
             idx == IF target.i >= 0 THEN target.i + 1 ELSE n + target.i + 1
         IN  [tag |-> "Classification",
              label |-> IF found THEN classes[idx] ELSE str(target)]

\* img.shape[:2]: the height and width of a decoded image
shape(img) ==
    CASE img.a = "pixels1" -> [height |-> 100, width |-> 200]
      [] img.a = "pixels2" -> [height |-> 100, width |-> 100]
      [] OTHER -> [height |-> 50, width |-> 40]

\* etau.is_numeric(value): isinstance(value, numbers.Number), which a bool is
is_numeric(value) == value.tag \in {"int", "float", "bool"}

\* ImageDetectionSampleParser._parse_attribute(value)
Attribute(cls, value) == [tag |-> cls, value |-> value]
parse_attribute_numeric_first(value) ==
    IF is_str(value) THEN Attribute("CategoricalAttribute", value)
    ELSE IF is_numeric(value) THEN Attribute("NumericAttribute", value)
    ELSE IF value.tag = "bool" THEN Attribute("BooleanAttribute", value)
    ELSE Attribute("Attribute", value)
parse_attribute(value) ==
    IF is_str(value) THEN Attribute("CategoricalAttribute", value)
    ELSE IF value.tag = "bool" THEN Attribute("BooleanAttribute", value)
    ELSE IF is_numeric(value) THEN Attribute("NumericAttribute", value)
    ELSE Attribute("Attribute", value)

\* classes[label], or str(label) when that lookup raises
class_label(classes, label) ==
    LET n == Len(classes)
        found == classes # NoClasses /\ label.tag = "int" /\ label.i >= -n /\ label.i < n
        idx == IF label.i >= 0 THEN label.i + 1 ELSE n + label.i + 1
    IN  IF found THEN classes[idx] ELSE str(label)

\* obj.get(key, default)
dict_get(value, default) == IF value = Absent THEN default ELSE value

\* ImageDetectionSampleParser._parse_detection(obj, img)
parse_detection_width_first(cfg, obj, img) ==
    LET bbox == obj.bounding_box
        bounding_box ==
            IF ~cfg.normalized
            THEN <<truediv(bbox[1], shape(img).height), truediv(bbox[2], shape(img).width),
                   truediv(bbox[3], shape(img).height), truediv(bbox[4], shape(img).width)>>
            ELSE bbox
        confidence == IF cfg.confidence_field # NoneV THEN dict_get(obj.confidence, NoneV)
                      ELSE NoneV
        attrs == dict_get(obj.attributes, PDict)
        attributes ==
            IF cfg.attributes_field # NoneV
            THEN [tag |-> "dict",
                  items |-> [i \in 1..Len(attrs.items) |->
                               <<attrs.items[i][1], parse_attribute(attrs.items[i][2])>>]]
            ELSE NoneV
    IN  [tag |-> "Detection", label |-> class_label(cfg.classes, obj.label),
         bounding_box |-> bounding_box, confidence |-> confidence,
         attributes |-> attributes]
parse_detection(cfg, obj, img) ==
    LET bbox == obj.bounding_box
        bounding_box ==
            IF ~cfg.normalized
            THEN <<truediv(bbox[1], shape(img).width), truediv(bbox[2], shape(img).height),
                   truediv(bbox[3], shape(img).width), truediv(bbox[4], shape(img).height)>>
            ELSE bbox
        confidence == IF cfg.confidence_field # NoneV THEN dict_get(obj.confidence, NoneV)
                      ELSE NoneV
        attrs == dict_get(obj.attributes, PDict)
        attributes ==
            IF cfg.attributes_field # NoneV
            THEN [tag |-> "dict",
                  items |-> [i \in 1..Len(attrs.items) |->
                               <<attrs.items[i][1], parse_attribute(attrs.items[i][2])>>]]
            ELSE NoneV
    IN  [tag |-> "Detection", label |-> class_label(cfg.classes, obj.label),
         bounding_box |-> bounding_box, confidence |-> confidence,
         attributes |-> attributes]

\* ImageDetectionSampleParser._parse_label(target, img)
detection_parse_label(cfg, target, img) ==
    IF target = NoneV THEN NoneV
    ELSE [tag |-> "Detections",
          detections |-> [i \in 1..Len(target.objs) |->
                            parse_detection(cfg, target.objs[i], img)]]

\* ImageLabelsSampleParser._parse_label(labels)
image_labels_parse_label(expand, labels) ==
    IF expand THEN [tag |-> "dict", expanded |-> labels.l]
    ELSE [tag |-> "ImageLabels", l |-> labels.l]

\* sample[key] of a stored Sample
sample_getitem(c, key) == IF key = "gt" THEN c.gt ELSE c.pred

\* {key: value for ...}: the dict of the <<key, value>> pairs, in the order the
\* keys were first set; a key set again keeps its place and takes the new value
RECURSIVE dict_of(_, _, _)
dict_of(pairs, i, items) ==
    IF i > Len(pairs) THEN items
    ELSE IF \E j \in 1..Len(items) : items[j][1] = pairs[i][1]
    THEN dict_of(pairs, i + 1,
                 [j \in 1..Len(items) |->
                    IF items[j][1] = pairs[i][1] THEN pairs[i] ELSE items[j]])
    ELSE dict_of(pairs, i + 1, Append(items, pairs[i]))

\* FiftyOneLabeledImageSampleParser.get_label: a dict comprehension over the
\* items of label_field_or_dict reads current_sample once per item
selected_labels_keyed_by_source(sel, c) ==
    IF sel.tag = "dict"
    THEN IF sel.items = <<>> THEN Ok([tag |-> "dict", items |-> <<>>])
         ELSE IF current_sample(c).tag = "err" THEN current_sample(c)
         ELSE Ok([tag |-> "dict",
                  items |-> dict_of([i \in 1..Len(sel.items) |->
                                       <<sel.items[i][1],
                                         sample_getitem(c, sel.items[i][1])>>], 1, <<>>)])
    ELSE IF current_sample(c).tag = "err" THEN current_sample(c)
    ELSE Ok(sample_getitem(c, sel.s))
selected_labels(sel, c) ==
    IF sel.tag = "dict"
    THEN IF sel.items = <<>> THEN Ok([tag |-> "dict", items |-> <<>>])
         ELSE IF current_sample(c).tag = "err" THEN current_sample(c)
         ELSE Ok([tag |-> "dict",
                  items |-> dict_of([i \in 1..Len(sel.items) |->
                                       <<sel.items[i][2],
                                         sample_getitem(c, sel.items[i][1])>>], 1, <<>>)])
    ELSE IF current_sample(c).tag = "err" THEN current_sample(c)
    ELSE Ok(sample_getitem(c, sel.s))

get_label_always_fetches_image(cfg, c, ch) ==
    IF cfg.cls = "FiftyOneLabeledImageSampleParser"
    THEN Out(selected_labels(cfg.label_field_or_dict, c), ch, 0)
    ELSE IF current_sample(c).tag = "err" THEN Out(current_sample(c), ch, 0)
    ELSE IF cfg.cls = "LabeledImageTupleSampleParser" THEN Out(Ok(c.label), ch, 0)
    ELSE IF cfg.cls = "ImageClassificationSampleParser"
    THEN Out(Ok(classification_parse_label(cfg.classes, c.label)), ch, 0)
    ELSE IF cfg.cls = "ImageLabelsSampleParser"
    THEN Out(Ok(image_labels_parse_label(cfg.expand, c.label)), ch, 0)
    ELSE LET im == current_image(c, ch)
         IN  [im EXCEPT !.res = Ok(detection_parse_label(cfg, c.label,
                                      IF cfg.normalized THEN NoneV ELSE im.res.v))]
get_label(cfg, c, ch) ==
    IF cfg.cls = "FiftyOneLabeledImageSampleParser"
    THEN Out(selected_labels(cfg.label_field_or_dict, c), ch, 0)
    ELSE IF current_sample(c).tag = "err" THEN Out(current_sample(c), ch, 0)
    ELSE IF cfg.cls = "LabeledImageTupleSampleParser" THEN Out(Ok(c.label), ch, 0)
    ELSE IF cfg.cls = "ImageClassificationSampleParser"
    THEN Out(Ok(classification_parse_label(cfg.classes, c.label)), ch, 0)
    ELSE IF cfg.cls = "ImageLabelsSampleParser"
    THEN Out(Ok(image_labels_parse_label(cfg.expand, c.label)), ch, 0)
    ELSE IF cfg.normalized THEN Out(Ok(detection_parse_label(cfg, c.label, NoneV)), ch, 0)
    ELSE LET im == current_image(c, ch)
         IN  [im EXCEPT !.res = Ok(detection_parse_label(cfg, c.label, im.res.v))]

\* ------------------------------------------------------------ parser actions
Call(op, res) == [op |-> op, res |-> res]

WithSample(r) ==
    /\ cur' = with_sample(parser.cls, cache, r)[1]
    /\ cache' = with_sample(parser.cls, cache, r)[2]
    /\ decodes' = 0
    /\ uses' = 0
    /\ stale' = cache
    /\ plast' = Call("with_sample", Ok(NoneV))
    /\ UNCHANGED parser
    /\ UNCHANGED svars
    /\ UNCHANGED ivars
    /\ UNCHANGED xvars

ClearSample ==
    /\ cur' = clear_sample(parser.cls, cache)[1]
    /\ cache' = clear_sample(parser.cls, cache)[2]
    /\ decodes' = 0
    /\ uses' = 0
    /\ plast' = Call("clear_sample", Ok(NoneV))
    /\ UNCHANGED <<parser, stale>>
    /\ UNCHANGED svars
    /\ UNCHANGED ivars
    /\ UNCHANGED xvars

Accessor(op, out) ==
    /\ decodes + out.n <= MaxDecodes
    /\ uses + out.asked <= MaxUses
    /\ cache' = out.cache
    /\ decodes' = decodes + out.n
    /\ uses' = uses + out.asked
    /\ plast' = Call(op, out.res)
    /\ UNCHANGED <<parser, cur, stale>>
    /\ UNCHANGED svars
    /\ UNCHANGED ivars
    /\ UNCHANGED xvars

GetImage == Accessor("get_image", get_image(parser, cur, cache))

GetImagePath == Accessor("get_image_path", Out(get_image_path(parser, cur), cache, 0))

GetImageMetadata ==
    Accessor("get_image_metadata", Out(get_image_metadata(parser, cur), cache, 0))

GetLabel ==
    /\ parser.cls \in LabeledParsers
    /\ Accessor("get_label", get_label(parser, cur, cache))

\* the two capability properties, read
HasImagePath ==
    Accessor("has_image_path", Out(Ok(PBool(has_image_path(parser.cls))), cache, 0))

HasImageMetadata ==
    Accessor("has_image_metadata", Out(Ok(PBool(has_image_metadata(parser.cls))), cache, 0))

ParserNext ==
    \/ \E r \in Records(parser.cls) : WithSample(r)
    \/ ClearSample
    \/ GetImage
    \/ GetImagePath
    \/ GetImageMetadata
    \/ GetLabel
    \/ HasImagePath
    \/ HasImageMetadata

\* ===================================================== sample.py: ODMSample
PTuple == [tag |-> "tuple", items |-> <<>>]
\* an instance of an EmbeddedDocument class (a label, a metadata object)
Embedded(type) == [tag |-> "EmbeddedDocument", type |-> type]
\* the classes a document class is a subclass of
Superclasses(t) ==
    CASE t = "Classification" -> {"Classification", "Label", "EmbeddedDocument"}
      [] t = "Detections" -> {"Detections", "Label", "EmbeddedDocument"}
      [] t = "Label" -> {"Label", "EmbeddedDocument"}
      [] t = "ImageMetadata" -> {"ImageMetadata", "Metadata", "EmbeddedDocument"}
      [] t = "Metadata" -> {"Metadata", "EmbeddedDocument"}
      [] OTHER -> {t}

\* the subclasses of mongoengine's BaseField the model uses
BaseFieldClasses == {"BooleanField", "IntField", "StringField", "ListField",
                     "DictField", "EmbeddedDocumentField"}

Field(ft, doc) == [ft |-> ft, document_type |-> doc]

\* name.startswith("_"), over the names of the model
Names == {"filepath", "tags", "metadata", "filename", "_x", "gt"}
startswith_underscore(name) == name \in {"_x"}

\* the fields the class declares
DeclaredOrder == <<"filepath", "tags", "metadata">>
DeclaredFields ==
    [n \in {"filepath", "tags", "metadata"} |->
        CASE n = "filepath" -> Field("StringField", "None")
          [] n = "tags" -> Field("ListField", "None")
          [] OTHER -> Field("EmbeddedDocumentField", "Metadata")]

\* the properties of the class that are not fields (read-only: no setter)
ClassProperties == {"filename"}

\* field.validate(value) of the field classes: TRUE when the value passes
validate(f, value) ==
    CASE f.ft = "BooleanField" -> value.tag = "bool"
      [] f.ft = "IntField" -> value.tag \in {"int", "bool", "float"}
      [] f.ft = "StringField" -> value.tag = "str"
      [] f.ft = "ListField" -> value.tag \in {"list", "tuple"}
      [] f.ft = "DictField" -> value.tag = "dict"
      [] OTHER -> /\ value.tag = "EmbeddedDocument"
                  /\ f.document_type \in Superclasses(value.type)

\* ---- add_field(field_name, field_type, embedded_doc_type)
SchemaOut(F, O, res) == [fields |-> F, order |-> O, res |-> res]

add_field_no_duplicate_check(F, O, name, ft, doc) ==
    IF ft \notin BaseFieldClasses THEN SchemaOut(F, O, Err("InvalidFieldType"))
    ELSE SchemaOut([n \in DOMAIN F \cup {name} |->
                      IF n = name
                      THEN Field(ft, IF ft = "EmbeddedDocumentField" THEN doc ELSE "None")
                      ELSE F[n]],
                   Append(O, name), Ok(NoneV))
add_field_replaces(F, O, name, ft, doc) ==
    IF ft \notin BaseFieldClasses THEN SchemaOut(F, O, Err("InvalidFieldType"))
    ELSE SchemaOut([n \in DOMAIN F \cup {name} |->
                      IF n = name
                      THEN Field(ft, IF ft = "EmbeddedDocumentField" THEN doc ELSE "None")
                      ELSE F[n]],
                   IF name \in DOMAIN F THEN O ELSE Append(O, name), Ok(NoneV))
add_field_prepends(F, O, name, ft, doc) ==
    IF name \in DOMAIN F THEN SchemaOut(F, O, Err("FieldExists"))
    ELSE IF ft \notin BaseFieldClasses THEN SchemaOut(F, O, Err("InvalidFieldType"))
    ELSE SchemaOut(F @@ (name :> Field(ft, IF ft = "EmbeddedDocumentField" THEN doc ELSE "None")),
                   <<name>> \o O, Ok(NoneV))
add_field_registers_before_check(F, O, name, ft, doc) ==
    IF name \in DOMAIN F THEN SchemaOut(F, O, Err("FieldExists"))
    ELSE SchemaOut(F @@ (name :> Field(ft, IF ft = "EmbeddedDocumentField" THEN doc ELSE "None")),
                   Append(O, name),
                   IF ft \notin BaseFieldClasses THEN Err("InvalidFieldType") ELSE Ok(NoneV))
add_field(F, O, name, ft, doc) ==
    IF name \in DOMAIN F THEN SchemaOut(F, O, Err("FieldExists"))
    ELSE IF ft \notin BaseFieldClasses THEN SchemaOut(F, O, Err("InvalidFieldType"))
    ELSE SchemaOut(F @@ (name :> Field(ft, IF ft = "EmbeddedDocumentField" THEN doc ELSE "None")),
                   Append(O, name), Ok(NoneV))

\* ---- _add_implied_field(field_name, value)
add_implied_field_int_before_bool(F, O, name, value) ==
    IF name \in DOMAIN F THEN SchemaOut(F, O, Err("AssertionError"))
    ELSE IF value.tag = "EmbeddedDocument"
    THEN add_field(F, O, name, "EmbeddedDocumentField", value.type)
    ELSE IF value.tag \in {"int", "bool"} THEN add_field(F, O, name, "IntField", "None")
    ELSE IF value.tag = "bool" THEN add_field(F, O, name, "BooleanField", "None")
    ELSE IF value.tag = "str" THEN add_field(F, O, name, "StringField", "None")
    ELSE IF value.tag \in {"list", "tuple"} THEN add_field(F, O, name, "ListField", "None")
    ELSE IF value.tag = "dict" THEN add_field(F, O, name, "DictField", "None")
    ELSE SchemaOut(F, O, Err("InvalidType"))
add_implied_field_falls_back_to_dict(F, O, name, value) ==
    IF name \in DOMAIN F THEN SchemaOut(F, O, Err("AssertionError"))
    ELSE IF value.tag = "EmbeddedDocument"
    THEN add_field(F, O, name, "EmbeddedDocumentField", value.type)
    ELSE IF value.tag = "bool" THEN add_field(F, O, name, "BooleanField", "None")
    ELSE IF value.tag \in {"int", "bool"} THEN add_field(F, O, name, "IntField", "None")
    ELSE IF value.tag = "str" THEN add_field(F, O, name, "StringField", "None")
    ELSE IF value.tag \in {"list", "tuple"} THEN add_field(F, O, name, "ListField", "None")
    ELSE add_field(F, O, name, "DictField", "None")
add_implied_field(F, O, name, value) ==
    IF name \in DOMAIN F THEN SchemaOut(F, O, Err("AssertionError"))
    ELSE IF value.tag = "EmbeddedDocument"
    THEN add_field(F, O, name, "EmbeddedDocumentField", value.type)
    ELSE IF value.tag = "bool" THEN add_field(F, O, name, "BooleanField", "None")
    ELSE IF value.tag \in {"int", "bool"} THEN add_field(F, O, name, "IntField", "None")
    ELSE IF value.tag = "str" THEN add_field(F, O, name, "StringField", "None")
    ELSE IF value.tag \in {"list", "tuple"} THEN add_field(F, O, name, "ListField", "None")
    ELSE IF value.tag = "dict" THEN add_field(F, O, name, "DictField", "None")
    ELSE SchemaOut(F, O, Err("InvalidType"))

\* ---- get_fields(field_type): the names of the matching fields, in the order
\* of _fields_ordered; field_type is "None", a field class or a document class
isinstance_field(f, ft) == ft = "BaseField" \/ f.ft = ft
get_fields_exact_type(F, O, field_type) ==
    LET ft == IF field_type = "None" THEN "BaseField" ELSE field_type
        is_field_class == ft \in BaseFieldClasses \cup {"BaseField"}
        is_document_class == "EmbeddedDocument" \in Superclasses(ft)
        matches(n) ==
            IF is_field_class THEN isinstance_field(F[n], ft)
            ELSE /\ F[n].ft = "EmbeddedDocumentField"
                 /\ ft = F[n].document_type
    IN  IF ~is_field_class /\ ~is_document_class THEN Err("TypeError")
        ELSE Ok(SelectSeq(O, matches))
get_fields(F, O, field_type) ==
    LET ft == IF field_type = "None" THEN "BaseField" ELSE field_type
        is_field_class == ft \in BaseFieldClasses \cup {"BaseField"}
        is_document_class == "EmbeddedDocument" \in Superclasses(ft)
        matches(n) ==
            IF is_field_class THEN isinstance_field(F[n], ft)
            ELSE /\ F[n].ft = "EmbeddedDocumentField"
                 /\ ft \in Superclasses(F[n].document_type)
    IN  IF ~is_field_class /\ ~is_document_class THEN Err("TypeError")
        ELSE Ok(SelectSeq(O, matches))

\* ---- a Sample: data, the values of its fields (None when unset);
\*      dict, its other instance attributes; in_db, whether it is persisted
NewSample(filepath, in_db) ==
    [data |-> [n \in Names |-> IF n = "filepath" THEN filepath
                               ELSE IF n = "tags" THEN PList ELSE NoneV],
     dict |-> [n \in Names |-> Absent],
     in_db |-> in_db]

\* hasattr(self, name): fields and properties of the class come before the
\* instance __dict__; the filename property is os.path.basename(self.filepath)
hasattr(F, smp, name) ==
    IF name \in DOMAIN F THEN Ok(TRUE)
    ELSE IF name \in ClassProperties
    THEN IF smp.data["filepath"] = NoneV THEN Err("TypeError") ELSE Ok(TRUE)
    ELSE Ok(smp.dict[name] # Absent)

\* hasattr(cls, name)
hasattr_cls(F, name) == name \in DOMAIN F \/ name \in ClassProperties

\* [smp: the Sample afterwards, res: the outcome, saved: save() calls made]
SampleOut(smp, res, saved) == [smp |-> smp, res |-> res, saved |-> saved]

\* super().__setattr__(name, value): a field stores into the document's data
\* (None becomes the field's default), a property has no setter, any other
\* name lands in the instance __dict__
super_setattr_drops_value(F, smp, name, value) ==
    IF name \in ClassProperties /\ name \notin DOMAIN F
    THEN SampleOut(smp, Err("AttributeError"), 0)
    ELSE SampleOut(smp, Ok(NoneV), 0)
super_setattr(F, smp, name, value) ==
    IF name \in DOMAIN F
    THEN LET stored == IF value # NoneV THEN value
                       ELSE IF F[name].ft = "ListField" THEN PList
                       ELSE IF F[name].ft = "DictField" THEN PDict ELSE NoneV
         IN  SampleOut([smp EXCEPT !.data[name] = stored], Ok(NoneV), 0)
    ELSE IF name \in ClassProperties THEN SampleOut(smp, Err("AttributeError"), 0)
    ELSE SampleOut([smp EXCEPT !.dict[name] = value], Ok(NoneV), 0)

\* ---- __setattr__(name, value)
setattr_skips_validation(F, smp, name, value) ==
    IF startswith_underscore(name) THEN super_setattr(F, smp, name, value)
    ELSE IF hasattr(F, smp, name).tag = "err" THEN SampleOut(smp, hasattr(F, smp, name), 0)
    ELSE IF hasattr(F, smp, name).v /\ name \notin DOMAIN F
    THEN super_setattr(F, smp, name, value)
    ELSE IF hasattr_cls(F, name)
    THEN LET w == super_setattr(F, smp, name, value)
         IN  IF name \notin {"_cls", "id"} /\ smp.in_db
             THEN SampleOut(w.smp, w.res, 1) ELSE w
    ELSE super_setattr(F, smp, name, value)
setattr(F, smp, name, value) ==
    IF startswith_underscore(name) THEN super_setattr(F, smp, name, value)
    ELSE IF hasattr(F, smp, name).tag = "err" THEN SampleOut(smp, hasattr(F, smp, name), 0)
    ELSE IF hasattr(F, smp, name).v /\ name \notin DOMAIN F
    THEN super_setattr(F, smp, name, value)
    ELSE IF hasattr_cls(F, name)
    THEN IF value # NoneV /\ ~validate(F[name], value)
         THEN SampleOut(smp, Err("ValidationError"), 0)
         ELSE LET w == super_setattr(F, smp, name, value)
              IN  IF name \notin {"_cls", "id"} /\ smp.in_db
                  THEN SampleOut(w.smp, w.res, 1) ELSE w
    ELSE super_setattr(F, smp, name, value)

\* ---- set_field(field_name, value, create)
SetOut(F, O, w) ==
    [fields |-> F, order |-> O, smp |-> w.smp, res |-> w.res, saved |-> w.saved]

set_field_no_prefix_check(F, O, smp, name, value, create) ==
    IF hasattr(F, smp, name).tag = "err"
    THEN SetOut(F, O, SampleOut(smp, hasattr(F, smp, name), 0))
    ELSE IF hasattr(F, smp, name).v /\ name \notin DOMAIN F
    THEN SetOut(F, O, SampleOut(smp, Err("ReserveWord"), 0))
    ELSE IF name \notin DOMAIN F
    THEN IF create
         THEN LET a == add_implied_field(F, O, name, value)
              IN  IF a.res.tag = "err" THEN SetOut(F, O, SampleOut(smp, a.res, 0))
                  ELSE SetOut(a.fields, a.order, setattr(a.fields, smp, name, value))
         ELSE SetOut(F, O, SampleOut(smp, Err("NoSuchField"), 0))
    ELSE SetOut(F, O, setattr(F, smp, name, value))
set_field_always_creates(F, O, smp, name, value, create) ==
    IF startswith_underscore(name)
    THEN SetOut(F, O, SampleOut(smp, Err("InvalidFieldName"), 0))
    ELSE IF hasattr(F, smp, name).tag = "err"
    THEN SetOut(F, O, SampleOut(smp, hasattr(F, smp, name), 0))
    ELSE IF hasattr(F, smp, name).v /\ name \notin DOMAIN F
    THEN SetOut(F, O, SampleOut(smp, Err("ReserveWord"), 0))
    ELSE IF name \notin DOMAIN F
    THEN LET a == add_implied_field(F, O, name, value)
         IN  IF a.res.tag = "err" THEN SetOut(F, O, SampleOut(smp, a.res, 0))
             ELSE SetOut(a.fields, a.order, setattr(a.fields, smp, name, value))
    ELSE SetOut(F, O, setattr(F, smp, name, value))
set_field(F, O, smp, name, value, create) ==
    IF startswith_underscore(name)
    THEN SetOut(F, O, SampleOut(smp, Err("InvalidFieldName"), 0))
    ELSE IF hasattr(F, smp, name).tag = "err"
    THEN SetOut(F, O, SampleOut(smp, hasattr(F, smp, name), 0))
    ELSE IF hasattr(F, smp, name).v /\ name \notin DOMAIN F
    THEN SetOut(F, O, SampleOut(smp, Err("ReserveWord"), 0))
    ELSE IF name \notin DOMAIN F
    THEN IF create
         THEN LET a == add_implied_field(F, O, name, value)
              IN  IF a.res.tag = "err" THEN SetOut(F, O, SampleOut(smp, a.res, 0))
                  ELSE SetOut(a.fields, a.order, setattr(a.fields, smp, name, value))
         ELSE SetOut(F, O, SampleOut(smp, Err("NoSuchField"), 0))
    ELSE SetOut(F, O, setattr(F, smp, name, value))

\* ---- __setitem__(key, value)
setitem_without_create(F, O, smp, key, value) == set_field(F, O, smp, key, value, FALSE)
setitem(F, O, smp, key, value) == set_field(F, O, smp, key, value, TRUE)

\* os.path.basename(path), over the paths of the model
basename(s) == CASE s = "d/a" -> "a" [] s = "d/b" -> "b" [] OTHER -> s

\* field.__get__(instance): a list field hands out its list or tuple as a
\* list (BaseList) and keeps that list in the document's data
field_get(f, v) ==
    IF f.ft = "ListField" /\ v.tag \in {"list", "tuple"}
    THEN [tag |-> "list", items |-> v.items]
    ELSE v

\* ---- __getitem__(key): the attribute of that name when there is one, else
\* the document's own __getitem__, which knows the fields only
getitem(F, smp, key) ==
    IF hasattr(F, smp, key).tag = "err" THEN SampleOut(smp, hasattr(F, smp, key), 0)
    ELSE IF ~hasattr(F, smp, key).v THEN SampleOut(smp, Err("KeyError"), 0)
    ELSE IF key \in DOMAIN F
    THEN SampleOut([smp EXCEPT !.data[key] = field_get(F[key], smp.data[key])],
                   Ok(field_get(F[key], smp.data[key])), 0)
    ELSE IF key \in ClassProperties
    THEN SampleOut(smp, Ok(PStr(basename(smp.data["filepath"].s))), 0)
    ELSE SampleOut(smp, Ok(smp.dict[key]), 0)

\* ------------------------------------------------- schema / sample actions
\* the names, values and field types the calls are made with
CallNames == {"filepath", "filename", "_x", "gt"}
CallValues == {NoneV, PBool(TRUE), PStr("a")}
CallFieldTypes == {<<"BooleanField", "None">>, <<"StringField", "None">>,
                   <<"str", "None">>}

\* (on: the Sample the call was made on, "sample" or "other")
SCall(op, name, value, create, res) ==
    [op |-> op, name |-> name, value |-> value, create |-> create, res |-> res,
     on |-> "sample"]

\* the effect of a call on the schema, the Sample and the histories
Apply(F, O, smp, saved, name) ==
    /\ nops < MaxOps
    /\ nops' = nops + 1
    /\ fields' = F
    /\ fields_ordered' = O
    /\ sample' = smp
    /\ saves' = saves + saved
    /\ created' = IF DOMAIN F # DOMAIN fields THEN Append(created, name) ELSE created
    /\ UNCHANGED pvars
    /\ UNCHANGED ivars
    /\ UNCHANGED xvars

AddField(name, ft) ==
    LET a == add_field(fields, fields_ordered, name, ft[1], ft[2])
    IN  /\ Apply(a.fields, a.order, sample, 0, name)
        /\ slast' = SCall("add_field", name, PStr(ft[1]), FALSE, a.res)

SetField(name, value, create) ==
    LET a == set_field(fields, fields_ordered, sample, name, value, create)
    IN  /\ Apply(a.fields, a.order, a.smp, a.saved, name)
        /\ slast' = SCall("set_field", name, value, create, a.res)

SetItem(name, value) ==
    LET a == setitem(fields, fields_ordered, sample, name, value)
    IN  /\ Apply(a.fields, a.order, a.smp, a.saved, name)
        /\ slast' = SCall("__setitem__", name, value, TRUE, a.res)

SetAttr(name, value) ==
    LET a == setattr(fields, sample, name, value)
    IN  /\ Apply(fields, fields_ordered, a.smp, a.saved, name)
        /\ slast' = SCall("__setattr__", name, value, FALSE, a.res)

GetItem(name) ==
    LET a == getitem(fields, sample, name)
    IN  /\ Apply(fields, fields_ordered, a.smp, a.saved, name)
        /\ slast' = SCall("__getitem__", name, NoneV, FALSE, a.res)

\* get_fields(field_type); the call's name is the filter it was given
GetFields(field_type) ==
    /\ Apply(fields, fields_ordered, sample, 0, field_type)
    /\ slast' = SCall("get_fields", field_type, NoneV, FALSE,
                      get_fields(fields, fields_ordered, field_type))

\* ================================== add_images / add_labeled_images
\* no ingestion call was made yet
NoRun == [op |-> "None", label_field |-> "None", expand_schema |-> FALSE,
          expand |-> FALSE, status |-> "idle", err |-> "None", n |-> 0, base |-> 0]

\* isinstance(sample_parser, UnlabeledImageSampleParser / LabeledImageSampleParser)
isinstance_unlabeled(cls) ==
    cls \in UnlabeledParsers \cup {"PathlessUnlabeledImageSampleParser"}
isinstance_labeled(cls) ==
    cls \in LabeledParsers \cup {"PathlessLabeledImageSampleParser"}

\* label_cls of each labeled parser: a label class, or "None"
label_cls_ignores_expand(cfg) ==
    CASE cfg.cls = "ImageClassificationSampleParser" -> "Classification"
      [] cfg.cls = "ImageDetectionSampleParser" -> "Detections"
      [] cfg.cls = "ImageLabelsSampleParser" -> "ImageLabels"
      [] OTHER -> "Label"
label_cls(cfg) ==
    CASE cfg.cls = "ImageClassificationSampleParser" -> "Classification"
      [] cfg.cls = "ImageDetectionSampleParser" -> "Detections"
      [] cfg.cls = "ImageLabelsSampleParser" ->
            IF ~cfg.expand THEN "ImageLabels" ELSE "None"
      [] OTHER -> "Label"

\* the two checks at the head of add_images and of add_labeled_images
add_images_check(cfg) ==
    IF ~has_image_path(cfg.cls) THEN Err("NoImagePath")
    ELSE IF ~isinstance_unlabeled(cfg.cls) THEN Err("NotAnUnlabeledParser")
    ELSE Ok(NoneV)
add_labeled_images_check_skips_isinstance(cfg) ==
    IF ~has_image_path(cfg.cls) THEN Err("NoImagePath") ELSE Ok(NoneV)
add_labeled_images_check(cfg) ==
    IF ~has_image_path(cfg.cls) THEN Err("NoImagePath")
    ELSE IF ~isinstance_labeled(cfg.cls) THEN Err("NotALabeledParser")
    ELSE Ok(NoneV)

\* whether add_labeled_images pre-creates label_field
precreates_never(expand_schema, lc) == FALSE
precreates(expand_schema, lc) == expand_schema /\ lc # "None"

\* dataset._ensure_label_field(label_field, label_cls): nothing to do when the
\* field exists with a compatible kind, else the field is created
ensure_label_field_always_adds(F, O, name, lc) ==
    add_field(F, O, name, "EmbeddedDocumentField", lc)
ensure_label_field(F, O, name, lc) ==
    IF /\ name \in DOMAIN F
       /\ F[name].ft = "EmbeddedDocumentField"
       /\ F[name].document_type \in Superclasses(lc)
    THEN SchemaOut(F, O, Ok(NoneV))
    ELSE add_field(F, O, name, "EmbeddedDocumentField", lc)

\* add_labeled_images up to parse_sample: the checks, the pre-creation and the
\* expand_schema that add_samples will be given
\* [res, fields, order, expand: the flag handed on, ensured: pre-creation ran]
BeginOut(res, F, O, expand, ens) ==
    [res |-> res, fields |-> F, order |-> O, expand |-> expand, ensured |-> ens]
add_labeled_images_begin(cfg, F, O, label_field, expand_schema) ==
    IF add_labeled_images_check(cfg).tag = "err"
    THEN BeginOut(add_labeled_images_check(cfg), F, O, expand_schema, FALSE)
    ELSE IF precreates(expand_schema, label_cls(cfg))
    THEN LET e == ensure_label_field(F, O, label_field, label_cls(cfg))
         IN  IF e.res.tag = "err" THEN BeginOut(e.res, F, O, expand_schema, FALSE)
             ELSE BeginOut(Ok(NoneV), e.fields, e.order, FALSE, TRUE)
    ELSE BeginOut(Ok(NoneV), F, O, expand_schema, FALSE)

\* ---- fos.Sample(filepath, metadata, tags): a new Sample, not yet in a
\* dataset; labels are its other fields, <<name, value>> in the order written
IngestTags == [tag |-> "list", items |-> <<"t">>]
Sample(filepath, metadata, tags) ==
    [tag |-> "fos.Sample", filepath |-> filepath, metadata |-> metadata,
     tags |-> tags, labels |-> <<>>]

\* sample[name] = value
sample_setitem(smp, name, value) ==
    IF \E i \in 1..Len(smp.labels) : smp.labels[i][1] = name
    THEN [smp EXCEPT !.labels = [i \in 1..Len(smp.labels) |->
                                   IF smp.labels[i][1] = name THEN <<name, value>>
                                   ELSE smp.labels[i]]]
    ELSE [smp EXCEPT !.labels = Append(smp.labels, <<name, value>>)]

\* the entries of a label dictionary: those of a store-native parser's dict,
\* or the labels an ImageLabels instance expands into
expanded_items(label) ==
    << <<"objs", [tag |-> "Detections", detections |-> <<>>, of |-> label.expanded]>> >>
label_items(label) ==
    IF "items" \in DOMAIN label THEN label.items ELSE expanded_items(label)

\* sample.update_fields(label): every entry is set under its own name
RECURSIVE update_fields_from(_, _, _)
update_fields_from(smp, items, i) ==
    IF i > Len(items) THEN smp
    ELSE update_fields_from(sample_setitem(smp, items[i][1], items[i][2]), items, i + 1)
update_fields(smp, label) == update_fields_from(smp, label_items(label), 1)

\* ---- parse_sample(sample) of add_images (labeled = FALSE) and of
\* add_labeled_images: [res: the Sample built or the error raised,
\*   cache, n, asked: as for the accessors, op: the last parser call made]
ParseOut(res, ch, n, asked, op) ==
    [res |-> res, cache |-> ch, n |-> n, asked |-> asked, op |-> op]
parse_sample_without_fan_out(cfg, ch, r, labeled, label_field) ==
    LET ws == with_sample(cfg.cls, ch, r)
        image_path == get_image_path(cfg, ws[1])
        metadata == IF has_image_metadata(cfg.cls) THEN get_image_metadata(cfg, ws[1])
                    ELSE Ok(NoneV)
        label == get_label(cfg, ws[1], ws[2])
        smp == Sample(image_path.v, metadata.v, IngestTags)
    IN  IF image_path.tag = "err" THEN ParseOut(image_path, ws[2], 0, 0, "get_image_path")
        ELSE IF metadata.tag = "err"
        THEN ParseOut(metadata, ws[2], 0, 0, "get_image_metadata")
        ELSE IF ~labeled
        THEN ParseOut(Ok(smp), ws[2], 0, 0,
                      IF has_image_metadata(cfg.cls) THEN "get_image_metadata"
                      ELSE "get_image_path")
        ELSE IF label.res.tag = "err"
        THEN ParseOut(label.res, label.cache, label.n, label.asked, "get_label")
        ELSE ParseOut(Ok(IF label.res.v # NoneV
                         THEN sample_setitem(smp, label_field, label.res.v)
                         ELSE smp),
                      label.cache, label.n, label.asked, "get_label")
parse_sample(cfg, ch, r, labeled, label_field) ==
    LET ws == with_sample(cfg.cls, ch, r)
        image_path == get_image_path(cfg, ws[1])
        metadata == IF has_image_metadata(cfg.cls) THEN get_image_metadata(cfg, ws[1])
                    ELSE Ok(NoneV)
        label == get_label(cfg, ws[1], ws[2])
        smp == Sample(image_path.v, metadata.v, IngestTags)
    IN  IF image_path.tag = "err" THEN ParseOut(image_path, ws[2], 0, 0, "get_image_path")
        ELSE IF metadata.tag = "err"
        THEN ParseOut(metadata, ws[2], 0, 0, "get_image_metadata")
        ELSE IF ~labeled
        THEN ParseOut(Ok(smp), ws[2], 0, 0,
                      IF has_image_metadata(cfg.cls) THEN "get_image_metadata"
                      ELSE "get_image_path")
        ELSE IF label.res.tag = "err"
        THEN ParseOut(label.res, label.cache, label.n, label.asked, "get_label")
        ELSE ParseOut(Ok(IF label.res.v.tag = "dict" THEN update_fields(smp, label.res.v)
                         ELSE IF label.res.v # NoneV
                         THEN sample_setitem(smp, label_field, label.res.v)
                         ELSE smp),
                      label.cache, label.n, label.asked, "get_label")

\* ---- dataset.add_samples(samples, expand_schema), for one Sample: each of
\* its fields must be in the schema with a kind its value fits, or is created
\* when expand_schema is set; filepath is unique in the dataset
RECURSIVE expand_schema_for(_, _, _, _, _)
expand_schema_for(F, O, labels, i, expand) ==
    IF i > Len(labels) THEN SchemaOut(F, O, Ok(NoneV))
    ELSE LET name == labels[i][1]
             value == labels[i][2]
         IN  IF value = NoneV THEN expand_schema_for(F, O, labels, i + 1, expand)
             ELSE IF name \in DOMAIN F
             THEN IF /\ F[name].ft = "EmbeddedDocumentField"
                     /\ F[name].document_type \in Superclasses(value.tag)
                  THEN expand_schema_for(F, O, labels, i + 1, expand)
                  ELSE SchemaOut(F, O, Err("ValidationError"))
             ELSE IF ~expand THEN SchemaOut(F, O, Err("FieldNotInSchema"))
             ELSE LET a == add_field(F, O, name, "EmbeddedDocumentField", value.tag)
                  IN  expand_schema_for(a.fields, a.order, labels, i + 1, expand)

\* [res, fields, order, store]
add_sample(F, O, st, smp, expand) ==
    LET x == expand_schema_for(F, O, smp.labels, 1, expand)
    IN  IF x.res.tag = "err" THEN [res |-> x.res, fields |-> F, order |-> O, store |-> st]
        ELSE IF \E i \in 1..Len(st) : st[i].filepath = smp.filepath
        THEN [res |-> Err("NotUnique"), fields |-> x.fields, order |-> x.order, store |-> st]
        ELSE [res |-> Ok(NoneV), fields |-> x.fields, order |-> x.order,
              store |-> Append(st, smp)]

\* ------------------------------------------------------- ingestion actions
\* (n: the calls made so far; base: the Samples in the dataset at the call)
Run(op, label_field, expand_schema, expand, res, n, base) ==
    [op |-> op, label_field |-> label_field, expand_schema |-> expand_schema,
     expand |-> expand, status |-> IF res.tag = "err" THEN "failed" ELSE "running",
     err |-> IF res.tag = "err" THEN res.e ELSE "None", n |-> n, base |-> base]

\* add_images(dataset, samples, sample_parser) up to the first record
AddImages ==
    /\ run.status # "running"
    /\ run.n < MaxRuns
    /\ run.n = 0 \/ run.op = "add_images"
    /\ run' = Run("add_images", "None", FALSE, FALSE, add_images_check(parser), run.n + 1,
                Len(store))
    /\ pos' = 0
    /\ positioned' = <<>>
    /\ built' = NoneV
    /\ UNCHANGED <<source, store, ensured>>
    /\ UNCHANGED pvars
    /\ UNCHANGED svars
    /\ UNCHANGED xvars

\* add_labeled_images(dataset, samples, sample_parser, label_field,
\* expand_schema) up to the first record; a later call on the same dataset is
\* made with the same arguments
AddLabeledImages(label_field, expand_schema) ==
    LET b == add_labeled_images_begin(parser, fields, fields_ordered, label_field,
                                      expand_schema)
    IN  /\ run.status # "running"
        /\ run.n < MaxRuns
        /\ \/ run.n = 0
           \/ /\ run.op = "add_labeled_images"
              /\ run.label_field = label_field
              /\ run.expand_schema = expand_schema
        /\ run' = Run("add_labeled_images", label_field, expand_schema, b.expand, b.res,
                      run.n + 1, Len(store))
        /\ fields' = b.fields
        /\ fields_ordered' = b.order
        /\ ensured' = IF b.ensured THEN Append(ensured, <<b.fields, b.order>>) ELSE ensured
        /\ pos' = 0
        /\ positioned' = <<>>
        /\ built' = NoneV
        /\ UNCHANGED <<source, store>>
        /\ UNCHANGED pvars
        /\ UNCHANGED <<sample, saves, created, slast, nops>>
        /\ UNCHANGED xvars

\* the status of the call after a record: an error raised by parse_sample() or
\* by the dataset is not caught, it ends the call
after_record_skips_errors(res) == "running"
after_record(res) == IF res.tag = "err" THEN "failed" ELSE "running"

\* the next record of the source: parse_sample(), then the Sample goes to the
\* dataset
ParseSample ==
    LET r == source[pos + 1]
        ps == parse_sample(parser, cache, r, run.op = "add_labeled_images", run.label_field)
        ad == add_sample(fields, fields_ordered, store, ps.res.v, run.expand)
        res == IF ps.res.tag = "err" THEN ps.res ELSE ad.res
    IN  /\ run.status = "running"
        /\ pos < Len(source)
        /\ cur' = r
        /\ cache' = ps.cache
        /\ decodes' = ps.n
        /\ uses' = ps.asked
        /\ stale' = cache
        /\ plast' = Call(ps.op, IF ps.res.tag = "err" THEN ps.res ELSE Ok(NoneV))
        /\ positioned' = Append(positioned, r)
        /\ pos' = pos + 1
        /\ built' = IF ps.res.tag = "err" THEN NoneV ELSE ps.res.v
        /\ fields' = IF ps.res.tag = "err" THEN fields ELSE ad.fields
        /\ fields_ordered' = IF ps.res.tag = "err" THEN fields_ordered ELSE ad.order
        /\ store' = IF ps.res.tag = "err" THEN store ELSE ad.store
        /\ run' = [run EXCEPT !.status = after_record(res),
                              !.err = IF res.tag = "err" THEN res.e ELSE run.err]
        /\ UNCHANGED <<parser, source, ensured>>
        /\ UNCHANGED <<sample, saves, created, slast, nops>>
        /\ UNCHANGED xvars

\* the source is exhausted: the call returns
Return ==
    /\ run.status = "running"
    /\ pos = Len(source)
    /\ run' = [run EXCEPT !.status = "done"]
    /\ UNCHANGED <<source, pos, positioned, built, store, ensured>>
    /\ UNCHANGED pvars
    /\ UNCHANGED svars
    /\ UNCHANGED xvars

\* the records an ingestion is fed
IngestPayloads(cls) ==
    CASE cls = "ImageClassificationSampleParser" -> {NoneV, PInt(0)}
      [] OTHER -> Payloads(cls)
IngestRecords(cls) ==
    IF cls = "ImageSampleParser" THEN ImagesOrPaths
    ELSE IF cls \in TupleParsers
    THEN {[tag |-> "tuple", image |-> i, label |-> l] :
            i \in ImagesOrPaths, l \in IngestPayloads(cls)}
    ELSE {StoredSample(fp, IF fp = "p1" THEN NoneV ELSE [tag |-> "ImageMetadata", of |-> "stored"],
                       gt, LabelOf("l2")) :
            fp \in {"p1", "p2"}, gt \in {NoneV, LabelOf("l1")}}
Sources(cls) == UNION {[1..n -> IngestRecords(cls)] : n \in 0..MaxRecords}

IngestConfigs ==
    ParserConfigs
    \cup {Config(c, NoClasses, TRUE, TRUE, NoSelector, FALSE) : c \in PathlessParsers}
LabelFields == {"ground_truth", "k1"}

\* a freshly constructed parser of any configuration, in Idle
ParserInit ==
    /\ parser \in ParserConfigs
    /\ cur = NoneV
    /\ cache = NoneV
    /\ decodes = 0
    /\ uses = 0
    /\ stale = NoneV
    /\ plast = Call("__init__", Ok(NoneV))
    /\ fields = DeclaredFields
    /\ fields_ordered = DeclaredOrder
    /\ sample = NewSample(PStr("a"), FALSE)
    /\ saves = 0
    /\ created = <<>>
    /\ slast = SCall("__init__", "filepath", PStr("a"), FALSE, Ok(NoneV))
    /\ nops = 0
    /\ source = <<>>
    /\ run = NoRun
    /\ pos = 0
    /\ positioned = <<>>
    /\ built = NoneV
    /\ store = <<>>
    /\ ensured = <<>>
    /\ other = NewSample(PStr("d/b"), FALSE)
    /\ workers = NoWorkers
    /\ exported = NoExport

\* a freshly constructed detection parser of any configuration, in Idle
DetectionInit ==
    /\ parser \in DetectionConfigs
    /\ cur = NoneV
    /\ cache = NoneV
    /\ decodes = 0
    /\ uses = 0
    /\ stale = NoneV
    /\ plast = Call("__init__", Ok(NoneV))
    /\ fields = DeclaredFields
    /\ fields_ordered = DeclaredOrder
    /\ sample = NewSample(PStr("a"), FALSE)
    /\ saves = 0
    /\ created = <<>>
    /\ slast = SCall("__init__", "filepath", PStr("a"), FALSE, Ok(NoneV))
    /\ nops = 0
    /\ source = <<>>
    /\ run = NoRun
    /\ pos = 0
    /\ positioned = <<>>
    /\ built = NoneV
    /\ store = <<>>
    /\ ensured = <<>>
    /\ other = NewSample(PStr("d/b"), FALSE)
    /\ workers = NoWorkers
    /\ exported = NoExport

\* a Sample of a collection whose schema holds the declared fields; it is new,
\* or was loaded from the store
SampleInit ==
    /\ fields = DeclaredFields
    /\ fields_ordered = DeclaredOrder
    /\ sample \in {NewSample(PStr("a"), db) : db \in BOOLEAN}
    /\ saves = 0
    /\ created = <<>>
    /\ slast = SCall("__init__", "filepath", PStr("a"), FALSE, Ok(NoneV))
    /\ nops = 0
    /\ parser = Config("ImageSampleParser", NoClasses, TRUE, TRUE, NoSelector, FALSE)
    /\ cur = NoneV
    /\ cache = NoneV
    /\ decodes = 0
    /\ uses = 0
    /\ stale = NoneV
    /\ plast = Call("__init__", Ok(NoneV))
    /\ source = <<>>
    /\ run = NoRun
    /\ pos = 0
    /\ positioned = <<>>
    /\ built = NoneV
    /\ store = <<>>
    /\ ensured = <<>>
    /\ other = NewSample(PStr("d/b"), FALSE)
    /\ workers = NoWorkers
    /\ exported = NoExport

\* a parser, a source of records and a dataset with the declared fields only
IngestInit ==
    /\ parser \in IngestConfigs
    /\ source \in Sources(parser.cls)
    /\ cur = NoneV
    /\ cache = NoneV
    /\ decodes = 0
    /\ uses = 0
    /\ stale = NoneV
    /\ plast = Call("__init__", Ok(NoneV))
    /\ fields = DeclaredFields
    /\ fields_ordered = DeclaredOrder
    /\ sample = NewSample(PStr("a"), FALSE)
    /\ saves = 0
    /\ created = <<>>
    /\ slast = SCall("__init__", "filepath", PStr("a"), FALSE, Ok(NoneV))
    /\ nops = 0
    /\ run = NoRun
    /\ pos = 0
    /\ positioned = <<>>
    /\ built = NoneV
    /\ store = <<>>
    /\ ensured = <<>>
    /\ other = NewSample(PStr("d/b"), FALSE)
    /\ workers = NoWorkers
    /\ exported = NoExport

IngestNext ==
    \/ AddImages
    \/ \E label_field \in LabelFields, expand_schema \in BOOLEAN :
            AddLabeledImages(label_field, expand_schema)
    \/ ParseSample
    \/ Return

\* the calls on the schema alone: fields of every kind are added, embedded
\* fields of several document classes among them, and the schema is listed
\* under every filter
SchemaNames == {"gt", "_x", "filename"}
SchemaFieldTypes == {<<"BooleanField", "None">>, <<"StringField", "None">>,
                     <<"EmbeddedDocumentField", "Classification">>,
                     <<"EmbeddedDocumentField", "Label">>,
                     <<"EmbeddedDocumentField", "ImageMetadata">>,
                     <<"str", "None">>}
FieldFilters == {"None", "StringField", "EmbeddedDocumentField", "EmbeddedDocument",
                 "Label", "Classification", "Metadata"}

SchemaNext ==
    \/ \E name \in SchemaNames, ft \in SchemaFieldTypes : AddField(name, ft)
    \/ \E field_type \in FieldFilters : GetFields(field_type)

DetectionNext ==
    \/ \E r \in DetectionRecords : WithSample(r)
    \/ ClearSample
    \/ GetLabel

SampleNext ==
    \/ \E name \in CallNames, ft \in CallFieldTypes : AddField(name, ft)
    \/ \E name \in CallNames, value \in CallValues, create \in BOOLEAN :
            SetField(name, value, create)
    \/ \E name \in CallNames, value \in CallValues : SetItem(name, value)
    \/ \E name \in CallNames, value \in CallValues : SetAttr(name, value)

\* the calls that create a field from a value: the names and the values of
\* every type _add_implied_field tells apart (None and a float match no rule)
InferNames == {"gt", "filename", "_x"}
InferValues == {NoneV, PBool(TRUE), PInt(1), PFloat("1.5"), PStr("a"), PList, PTuple,
                PDict, Embedded("Classification")}

InferNext ==
    \/ \E name \in InferNames, value \in InferValues : SetField(name, value, TRUE)
    \/ \E name \in InferNames, value \in InferValues : SetItem(name, value)
    \/ \E name \in InferNames, value \in {PStr("a"), PTuple} : SetAttr(name, value)
    \/ \E name \in InferNames : GetItem(name)

\* ----------------------------------------------------------- specifications
\* the parser alone: the schema and the Sample stay as constructed
SpecParser == ParserInit /\ [][ParserNext]_vars
\* the detection parser alone, over targets of several detection dicts
SpecDetection == DetectionInit /\ [][DetectionNext]_vars
\* the Sample and its schema alone: the parser stays as constructed
SpecSample == SampleInit /\ [][SampleNext]_vars
\* the schema alone, under add_field and get_fields
SpecSchema == SampleInit /\ [][SchemaNext]_vars
\* the Sample and its schema under field-creating writes of every value type
SpecInfer == SampleInit /\ [][InferNext]_vars
\* ingestion calls on one dataset with one parser
SpecIngest == IngestInit /\ [][IngestNext]_vars

\* ------------------------------------------------------------ parser claims
AccessorOps == {"get_image", "get_image_path", "get_image_metadata", "get_label"}

\* what get_label() of a tuple-based parser yields when computed from the
\* record r alone, its image decoded afresh
label_from(cfg, r) ==
    CASE cfg.cls = "LabeledImageTupleSampleParser" -> r.label
      [] cfg.cls = "ImageClassificationSampleParser" ->
            classification_parse_label(cfg.classes, r.label)
      [] cfg.cls = "ImageLabelsSampleParser" ->
            image_labels_parse_label(cfg.expand, r.label)
      [] OTHER ->
            detection_parse_label(cfg, r.label,
                IF cfg.normalized THEN NoneV ELSE parse_image(r.image))

\* C1: on a tuple-based parser every accessor that returns, returns a value
\* derived from the record the parser is positioned on: get_image the decode
\* of its image (never an image memoized for an earlier record),
\* get_image_path its path, get_label the label parsed from its payload.
C1_CursorDiscipline ==
    (parser.cls \in TupleParsers /\ cur # NoneV /\ plast.res.tag = "ok") =>
        /\ plast.op = "get_image" => plast.res.v = parse_image(cur.image)
        /\ plast.op = "get_image_path" => plast.res.v = cur.image
        /\ plast.op = "get_label" => plast.res.v = label_from(parser, cur)

\* with_sample(a), get_image() memoizing a's image, with_sample(b) with another
\* image, then get_image() returning b's
C1_Witness ==
    /\ parser.cls \in TupleParsers
    /\ cur # NoneV
    /\ stale # NoneV
    /\ stale # parse_image(cur.image)
    /\ plast = Call("get_image", Ok(parse_image(cur.image)))

\* C2: in Idle every accessor of every concrete parser (get_image_metadata
\* where has_image_metadata is true) fails with the no-current-sample error
\* and leaves the parser state unchanged.
C2_IdleAccessorsFail ==
    [][(/\ cur = NoneV
        /\ plast'.op \in AccessorOps
        /\ plast'.op = "get_image_metadata" => has_image_metadata(parser.cls))
       => (/\ plast'.res = Err("NoCurrentSample")
           /\ cur' = cur
           /\ cache' = cache)]_vars

\* C3: on a tuple-based parser the image of the current record is decoded at
\* most once per positioning, whatever get_image / get_label calls are made.
C3_DecodedAtMostOnce == parser.cls \in TupleParsers => decodes <= 1

\* a detection parser with absolute boxes that served three image requests
\* (get_image and get_label) of one record, the last a get_label
C3_Witness ==
    /\ parser.cls = "ImageDetectionSampleParser"
    /\ ~parser.normalized
    /\ uses = MaxUses
    /\ decodes = 1
    /\ plast.op = "get_label"
    /\ plast.res.tag = "ok"
    /\ plast.res.v # NoneV

\* ------------------------------------------------- schema / sample claims
WriteOps == {"set_field", "__setitem__", "__setattr__"}
Unchanged(v) == v' = v

\* C4: the schema is monotone: a field of the schema stays in the schema, with
\* the same field type, across every call.
C4_SchemaMonotone ==
    [][\A n \in DOMAIN fields : n \in DOMAIN fields' /\ fields'[n] = fields[n]]_vars

\* an add_field() that asked for another type of an existing dynamic field,
\* which kept its type
C4_Witness ==
    /\ slast.op = "add_field"
    /\ slast.name \in DOMAIN fields
    /\ slast.name \notin DOMAIN DeclaredFields
    /\ slast.value.s \in BaseFieldClasses
    /\ fields[slast.name].ft # slast.value.s

\* C5: add_field() of a name already in the schema fails with the
\* field-exists error and leaves names, types and order unchanged; the names
\* of _fields_ordered are pairwise distinct in every reachable state.
C5_DuplicateRejected ==
    /\ [][(slast'.op = "add_field" /\ slast'.name \in DOMAIN fields /\ nops' # nops)
           => (/\ slast'.res = Err("FieldExists")
               /\ fields' = fields
               /\ fields_ordered' = fields_ordered)]_vars
    /\ [](\A i, j \in 1..Len(fields_ordered) :
            i # j => fields_ordered[i] # fields_ordered[j])

\* a rejected add_field() of a field that an earlier call created
C5_Witness ==
    /\ slast.op = "add_field"
    /\ slast.res = Err("FieldExists")
    /\ \E i \in 1..Len(created) : created[i] = slast.name

\* C6: get_fields() lists the declared fields and then the created fields in
\* the order of the calls that created them; a call leaves the order alone or
\* appends one new name at its end.
C6_InsertionOrder ==
    /\ [](get_fields(fields, fields_ordered, "None") = Ok(DeclaredOrder \o created))
    /\ [][\/ fields_ordered' = fields_ordered
           \/ /\ slast'.name \notin DOMAIN fields
              /\ slast'.res.tag = "ok"
              /\ fields_ordered' = Append(fields_ordered, slast'.name)]_vars

\* two fields created, the first by add_field() and the second by
\* set_field(create=True), listed in that order
C6_Witness ==
    /\ Len(created) = 2
    /\ slast.op = "set_field"
    /\ slast.create
    /\ slast.res.tag = "ok"
    /\ slast.name = created[2]
    /\ get_fields(fields, fields_ordered, "None").v = DeclaredOrder \o created
    /\ fields[created[1]].ft # fields[created[2]].ft

\* C7: set_field() of a name starting with "_" fails with the invalid-name
\* error for every value and both values of create, and changes neither the
\* schema nor the Sample.
C7_ReservedNameRejected ==
    [][(slast'.op = "set_field" /\ slast'.name = "_x" /\ nops' # nops)
       => (/\ slast'.res = Err("InvalidFieldName")
           /\ Unchanged(<<fields, fields_ordered, sample, saves>>))]_vars

\* set_field("_x", value, create=True) rejected, with a value whose field
\* type could have been inferred
C7_Witness ==
    /\ slast.op = "set_field"
    /\ slast.name = "_x"
    /\ slast.create
    /\ slast.value = PBool(TRUE)
    /\ slast.res = Err("InvalidFieldName")
    /\ "_x" \notin DOMAIN fields

\* C8 as stated: set_field(name, v, create=False) with a name that does not
\* start with "_" and is not in the schema fails with the no-such-field error
\* and changes neither the schema nor the Sample.
C8_UnknownFieldRejected ==
    [][(/\ slast'.op = "set_field" /\ ~slast'.create /\ nops' # nops
        /\ ~startswith_underscore(slast'.name)
        /\ slast'.name \notin DOMAIN fields)
       => (/\ slast'.res = Err("NoSuchField")
           /\ Unchanged(<<fields, fields_ordered, sample, saves>>))]_vars

\* C8 as amended: such a call always fails and changes nothing; the failure
\* is the no-such-field error exactly when the Sample has no attribute of that
\* name, the reserve-word error when it has one that is not a field, and the
\* error of evaluating the attribute when that fails.
C8_UnknownFieldRejectedAmended ==
    [][(/\ slast'.op = "set_field" /\ ~slast'.create /\ nops' # nops
        /\ ~startswith_underscore(slast'.name)
        /\ slast'.name \notin DOMAIN fields)
       => (/\ Unchanged(<<fields, fields_ordered, sample, saves>>)
           /\ slast'.res =
                 IF hasattr(fields, sample, slast'.name) = Ok(FALSE)
                 THEN Err("NoSuchField")
                 ELSE IF hasattr(fields, sample, slast'.name) = Ok(TRUE)
                 THEN Err("ReserveWord")
                 ELSE hasattr(fields, sample, slast'.name))]_vars

\* set_field("gt", value, create=False) rejected as no such field
C8_Witness ==
    /\ slast.op = "set_field"
    /\ ~slast.create
    /\ slast.name = "gt"
    /\ slast.value # NoneV
    /\ slast.res = Err("NoSuchField")
    /\ "gt" \notin DOMAIN fields
    /\ sample.dict["gt"] = Absent

\* C9: a write to a field of the schema whose value the field's validate()
\* rejects fails with the validation error, changes no value of the Sample
\* and triggers no save.  (set_field and item assignment refuse a name
\* starting with "_" before they write.)
C9_WritesValidated ==
    [][(/\ slast'.op \in WriteOps /\ nops' # nops
        /\ slast'.op = "__setattr__" \/ ~startswith_underscore(slast'.name)
        /\ slast'.name \in DOMAIN fields
        /\ slast'.value # NoneV
        /\ ~validate(fields[slast'.name], slast'.value))
       => (/\ slast'.res = Err("ValidationError")
           /\ Unchanged(<<sample, saves>>))]_vars

\* C10: every attribute stored on the Sample under a name that does not start
\* with "_" is a field of the schema.
C10_AttributesAreFields ==
    \A n \in Names :
        (~startswith_underscore(n) /\ sample.dict[n] # Absent) => n \in DOMAIN fields

\* ------------------------------------------------------ kind inference claims
\* the value types the inference table supports, and the field each yields
SupportedTags == {"EmbeddedDocument", "bool", "int", "str", "list", "tuple", "dict"}
KindOf(value) ==
    CASE value.tag = "EmbeddedDocument" -> Field("EmbeddedDocumentField", value.type)
      [] value.tag = "bool" -> Field("BooleanField", "None")
      [] value.tag = "int" -> Field("IntField", "None")
      [] value.tag = "str" -> Field("StringField", "None")
      [] value.tag \in {"list", "tuple"} -> Field("ListField", "None")
      [] OTHER -> Field("DictField", "None")

\* C11 as stated: set_field(name, value, create=True) with a value of a
\* supported type and a name that does not start with "_" and is not in the
\* schema succeeds, puts name in the schema with the kind inferred from the
\* value, and reading the field then returns the value.
C11_InferenceRoundTrip ==
    [][(/\ slast'.op = "set_field" /\ slast'.create /\ nops' # nops
        /\ slast'.value.tag \in SupportedTags
        /\ ~startswith_underscore(slast'.name)
        /\ slast'.name \notin DOMAIN fields)
       => (/\ slast'.res = Ok(NoneV)
           /\ slast'.name \in DOMAIN fields'
           /\ fields'[slast'.name] = KindOf(slast'.value)
           /\ getitem(fields', sample', slast'.name).res = Ok(slast'.value))]_vars

\* C11 as amended: the same, for a name that is moreover no attribute of the
\* Sample yet (the filename property is one), and with a tuple read back as
\* the list of its items.
C11_InferenceRoundTripAmended ==
    [][(/\ slast'.op = "set_field" /\ slast'.create /\ nops' # nops
        /\ slast'.value.tag \in SupportedTags
        /\ ~startswith_underscore(slast'.name)
        /\ slast'.name \notin DOMAIN fields
        /\ hasattr(fields, sample, slast'.name) = Ok(FALSE))
       => (/\ slast'.res = Ok(NoneV)
           /\ slast'.name \in DOMAIN fields'
           /\ fields'[slast'.name] = KindOf(slast'.value)
           /\ getitem(fields', sample', slast'.name).res =
                 Ok(IF slast'.value.tag = "tuple"
                    THEN [tag |-> "list", items |-> slast'.value.items]
                    ELSE slast'.value))]_vars

\* set_field("gt", <a tuple>, create=True) created a list field holding it,
\* and the field was then read
C11_Witness ==
    /\ slast.op = "__getitem__"
    /\ slast.name = "gt"
    /\ "gt" \in DOMAIN fields
    /\ fields["gt"] = Field("ListField", "None")
    /\ created = <<"gt">>
    /\ slast.res = Ok(PList)

\* C12: when a write creates a field, its kind is decided by the first rule
\* the value matches, in the order Embedded, Bool, Int, String, List/Sequence,
\* Dict/Mapping: a boolean yields a Boolean field, never an Int field; a
\* value matching no rule fails with the invalid-type error, and then neither
\* the schema nor the Sample changes.
C12_KindInference ==
    [][(/\ slast'.op \in {"set_field", "__setitem__"} /\ slast'.create /\ nops' # nops
        /\ ~startswith_underscore(slast'.name)
        /\ slast'.name \notin DOMAIN fields
        /\ hasattr(fields, sample, slast'.name) = Ok(FALSE))
       => IF slast'.value.tag \in SupportedTags
          THEN /\ slast'.name \in DOMAIN fields'
               /\ fields'[slast'.name] = KindOf(slast'.value)
               /\ slast'.value.tag = "bool" => fields'[slast'.name].ft = "BooleanField"
          ELSE /\ slast'.res = Err("InvalidType")
               /\ Unchanged(<<fields, fields_ordered, sample, saves>>)]_vars

\* sample["gt"] = True created a Boolean field
C12_Witness ==
    /\ slast.op = "__setitem__"
    /\ slast.name = "gt"
    /\ slast.value = PBool(TRUE)
    /\ slast.res = Ok(NoneV)
    /\ created = <<"gt">>
    /\ fields["gt"] = Field("BooleanField", "None")

\* C13: a write makes exactly one save when it succeeds, the Sample is
\* persisted and the name written is a field of the schema, and no save
\* otherwise (the Sample is not persisted, or the write fails).
C13_AutoPersist ==
    [][(slast'.op \in WriteOps /\ nops' # nops)
       => saves' = saves + (IF /\ slast'.res.tag = "ok"
                               /\ sample.in_db
                               /\ slast'.name \in DOMAIN fields'
                            THEN 1 ELSE 0)]_vars

\* ---------------------------------------------------------- ingestion claims
\* C14: add_images with a parser whose has_image_path is false or that is not
\* an unlabeled-image parser, and add_labeled_images with a parser whose
\* has_image_path is false or that is not a labeled-image parser, fail with
\* the incompatible-parser error; no record is consumed, the parser is not
\* positioned, and the schema and the dataset are as before the call.
C14_IncompatibleParserRejected ==
    [][(/\ run'.n = run.n + 1
        /\ \/ /\ run'.op = "add_images"
              /\ ~has_image_path(parser.cls) \/ ~isinstance_unlabeled(parser.cls)
           \/ /\ run'.op = "add_labeled_images"
              /\ ~has_image_path(parser.cls) \/ ~isinstance_labeled(parser.cls))
       => (/\ run'.status = "failed"
           /\ run'.err \in {"NoImagePath", "NotAnUnlabeledParser", "NotALabeledParser"}
           /\ pos' = 0
           /\ positioned' = <<>>
           /\ Unchanged(<<cur, cache, fields, fields_ordered, store, ensured>>))]_vars

\* add_labeled_images(expand_schema=True) given an unlabeled parser and a
\* source of two records: rejected with nothing consumed or created
C14_Witness ==
    /\ run.op = "add_labeled_images"
    /\ run.expand_schema
    /\ parser.cls = "ImageSampleParser"
    /\ run.status = "failed"
    /\ run.err = "NotALabeledParser"
    /\ Len(source) = 2
    /\ pos = 0
    /\ cur = NoneV
    /\ fields = DeclaredFields
    /\ store = <<>>

\* the path a record carries
PathOf(cls, r) ==
    IF cls = "ImageSampleParser" THEN r
    ELSE IF cls \in TupleParsers THEN r.image
    ELSE Path(r.filepath)

\* C15: a call consumes the records of the source once each and in source
\* order: the records passed to with_sample() are the first pos records of
\* the source, all of them when the call returns; each record consumed so far
\* added exactly one Sample to the dataset, the i-th of them carrying the
\* path of the i-th record and being the Sample parse_sample() builds from
\* the i-th record alone; the parser stands on the record consumed last.
C15_EachRecordOnceInOrder ==
    /\ run.status # "idle" => /\ pos <= Len(source)
                               /\ positioned = SubSeq(source, 1, pos)
                               /\ pos > 0 => cur = source[pos]
    /\ run.status = "done" => positioned = source
    /\ run.status \in {"running", "done"} =>
          /\ Len(store) = run.base + pos
          /\ \A i \in 1..pos :
                /\ store[run.base + i].filepath = PathOf(parser.cls, source[i])
                /\ store[run.base + i] =
                      parse_sample(parser, NoneV, source[i],
                                   run.op = "add_labeled_images", run.label_field).res.v

\* a detection parser with absolute boxes ingested two labeled records with
\* different images
C15_Witness ==
    /\ run.status = "done"
    /\ run.op = "add_labeled_images"
    /\ parser.cls = "ImageDetectionSampleParser"
    /\ ~parser.normalized
    /\ Len(source) = 2
    /\ Len(store) = 2
    /\ source[1].image # source[2].image
    /\ source[1].label # NoneV
    /\ source[2].label # NoneV
    /\ store[1].labels # store[2].labels

\* the label get_label() parses from a record alone, and the names of the
\* label fields written on a Sample
LabelOfRecord(r) == get_label(parser, r, NoneV).res.v
Written(smp) == {smp.labels[i][1] : i \in 1..Len(smp.labels)}
IndexOf(smp, name) ==
    (CHOOSE i \in 1..Len(smp.labels) : smp.labels[i][1] = name)

\* C16 as stated: for each record of add_labeled_images, a label that is a
\* mapping has every entry written on the Sample under its own key and
\* nothing under label_field; a label of None leaves the Sample without any
\* label field; any other label is written under label_field and under no
\* other field.
C16_LabelResolution ==
    (run.op = "add_labeled_images" /\ pos > 0 /\ built # NoneV) =>
        LET label == LabelOfRecord(source[pos])
        IN  IF label.tag = "dict"
            THEN /\ \A i \in 1..Len(label_items(label)) :
                       /\ label_items(label)[i][1] \in Written(built)
                       /\ built.labels[IndexOf(built, label_items(label)[i][1])][2]
                            = label_items(label)[i][2]
                 /\ run.label_field \notin Written(built)
            ELSE IF label = NoneV THEN built.labels = <<>>
            ELSE built.labels = << <<run.label_field, label>> >>

\* C16 as amended: a mapping has every entry written under its own key and
\* nothing else is written (label_field holds a value only when it is itself
\* a key of the mapping); the other two cases as stated.
C16_LabelResolutionAmended ==
    (run.op = "add_labeled_images" /\ pos > 0 /\ built # NoneV) =>
        LET label == LabelOfRecord(source[pos])
        IN  IF label.tag = "dict"
            THEN /\ \A i \in 1..Len(label_items(label)) :
                       /\ label_items(label)[i][1] \in Written(built)
                       /\ built.labels[IndexOf(built, label_items(label)[i][1])][2]
                            = label_items(label)[i][2]
                 /\ Written(built) =
                       {label_items(label)[i][1] : i \in 1..Len(label_items(label))}
            ELSE IF label = NoneV THEN built.labels = <<>>
            ELSE built.labels = << <<run.label_field, label>> >>

\* a record of a store-native parser with a two-entry selector, built into a
\* Sample with both entries while label_field is one of the keys
C16_Witness ==
    /\ run.op = "add_labeled_images"
    /\ parser.cls = "FiftyOneLabeledImageSampleParser"
    /\ pos > 0
    /\ built # NoneV
    /\ Written(built) = {"k1", "k2"}
    /\ run.label_field = "k1"

\* whether every record of the source is unlabeled
AllUnlabeled == \A i \in 1..Len(source) : LabelOfRecord(source[i]) = NoneV

\* C17: add_labeled_images with expand_schema=True and a parser whose
\* label_cls is not None has label_field in the schema from before the first
\* record is consumed to the end of the call; when the call returns and every
\* record was unlabeled (an empty source included), label_field is in the
\* schema and no Sample of the call has a value for it.
C17_SchemaPreCreation ==
    (/\ run.op = "add_labeled_images" /\ run.expand_schema
     /\ label_cls(parser) # "None"
     /\ run.status \in {"running", "done"})
    => /\ run.label_field \in DOMAIN fields
       /\ fields[run.label_field] = Field("EmbeddedDocumentField", label_cls(parser))
       /\ (run.status = "done" /\ AllUnlabeled) =>
             \A i \in run.base + 1..Len(store) : run.label_field \notin Written(store[i])

\* a classification parser ingested two unlabeled records
C17_Witness ==
    /\ run.op = "add_labeled_images"
    /\ run.expand_schema
    /\ parser.cls = "ImageClassificationSampleParser"
    /\ run.status = "done"
    /\ Len(source) = 2
    /\ AllUnlabeled
    /\ Len(store) = 2
    /\ run.label_field \in DOMAIN fields
    /\ store[1].labels = <<>>
    /\ store[2].labels = <<>>

\* C18: a later add_labeled_images call on the same dataset with the same
\* label_field and parser (expand_schema=True, label_cls not None) does not
\* fail with the field-exists error, and its pre-creation leaves the schema
\* as it was: the schema after every pre-creation is the same.
C18_SchemaIdempotence ==
    /\ [][(run'.n = run.n + 1 /\ Len(ensured) >= 1)
           => (/\ run'.err # "FieldExists"
               /\ Len(ensured') = Len(ensured) + 1
               /\ Unchanged(<<fields, fields_ordered>>))]_vars
    /\ [](\A i, j \in 1..Len(ensured) : ensured[i] = ensured[j])

\* a second call ran its pre-creation after a first call had stored a Sample
C18_Witness ==
    /\ Len(ensured) = 2
    /\ run.n = 2
    /\ run.err # "FieldExists"
    /\ Len(store) >= 1
    /\ run.label_field \in DOMAIN fields

\* C19: with the caller's expand_schema=True, only label_field stops being
\* expanded once it is pre-created: a record that resolves to other fields
\* has them created, the call does not fail because a field is missing.
C19_ExpansionDisabledForLabelFieldOnly ==
    (run.op = "add_labeled_images" /\ run.expand_schema /\ pos > 0 /\ built # NoneV)
    => /\ run.err # "FieldNotInSchema"
       /\ \A i \in 1..Len(built.labels) :
             built.labels[i][2] # NoneV => built.labels[i][1] \in DOMAIN fields

\* C20: an error raised while a record is processed ends the call with that
\* error, and from then on the call positions the parser on no further
\* record.
C20_NoSkipAndContinue ==
    /\ [][(run.status = "running" /\ pos' = pos + 1)
           => LET ps == parse_sample(parser, cache, source[pos + 1],
                                     run.op = "add_labeled_images", run.label_field)
              IN  ps.res.tag = "err" =>
                    /\ run'.status = "failed"
                    /\ run'.err = ps.res.e
                    /\ Unchanged(<<fields, fields_ordered, store>>)]_vars
    /\ [][(run.err # "None" /\ run'.n = run.n)
           => (run'.status = "failed" /\ Unchanged(<<positioned, pos, cur, store>>))]_vars

\* the first of two records failed (its image is not a path): the call ended
\* with the second record never passed to with_sample()
C20_Witness ==
    /\ run.status = "failed"
    /\ run.err = "NotAPath"
    /\ Len(source) = 2
    /\ pos = 1
    /\ positioned = <<source[1]>>
    /\ store = <<>>

\* ------------------------------------------- capability and accessor claims
\* the capabilities of each parser class: <<has_image_path, has_image_metadata>>
Capabilities(cls) ==
    CASE cls = "ImageSampleParser" -> <<TRUE, FALSE>>
      [] cls \in TupleParsers -> <<TRUE, FALSE>>
      [] OTHER -> <<TRUE, TRUE>>

\* C21: has_image_path and has_image_metadata return the value of the parser
\* class, whatever the cursor state and the record; get_image_metadata() of a
\* parser whose has_image_metadata is false fails with the
\* no-image-metadata error, on every record and in Idle, and leaves the
\* cursor and the image cache as they were.
C21_StaticCapabilities ==
    /\ [](plast.op = "has_image_path" =>
             plast.res = Ok(PBool(Capabilities(parser.cls)[1])))
    /\ [](plast.op = "has_image_metadata" =>
             plast.res = Ok(PBool(Capabilities(parser.cls)[2])))
    /\ [][(plast'.op = "get_image_metadata" /\ ~Capabilities(parser.cls)[2])
           => (/\ plast'.res = Err("NoImageMetadata")
               /\ Unchanged(<<cur, cache>>))]_vars

\* get_image_metadata() refused by a tuple-based parser that stands on a
\* record and holds its decoded image
C21_Witness ==
    /\ parser.cls \in TupleParsers
    /\ cur # NoneV
    /\ cache # NoneV
    /\ plast = Call("get_image_metadata", Err("NoImageMetadata"))

\* the image or path of the record of a raw-image or tuple-based parser
ImageOrPathOf(cls, r) == IF cls = "ImageSampleParser" THEN r ELSE r.image

\* C22: get_image_path() of the raw-image parser and of the tuple-based
\* parsers, positioned on a record, returns the record's path when it is a
\* path string and fails with the not-a-path error when it is an in-memory
\* image; the parser stays positioned on the same record either way.
C22_ImagePathOrNotAPath ==
    [][(/\ plast'.op = "get_image_path"
        /\ parser.cls \in {"ImageSampleParser"} \cup TupleParsers
        /\ cur # NoneV)
       => (/\ plast'.res = IF ImageOrPathOf(parser.cls, cur).tag = "str"
                           THEN Ok(ImageOrPathOf(parser.cls, cur))
                           ELSE Err("NotAPath")
           /\ Unchanged(<<cur, cache>>))]_vars

\* get_image_path() refused on a tuple whose image is in memory, after the
\* image was served by get_image()
C22_Witness ==
    /\ parser.cls \in TupleParsers
    /\ cur # NoneV
    /\ cur.image = Image("pixelsA")
    /\ cache = Image("pixelsA")
    /\ plast = Call("get_image_path", Err("NotAPath"))

\* whether classes[target] finds an entry: target is an index of the list,
\* counted from its start or (negative) from its end
LookupSucceeds(classes, target) ==
    /\ target.tag = "int"
    /\ -Len(classes) <= target.i
    /\ target.i < Len(classes)
Lookup(classes, target) ==
    classes[IF target.i >= 0 THEN target.i + 1 ELSE Len(classes) + target.i + 1]

\* C23: get_label() of the classification parser never fails on a record: a
\* target of None yields None; any other target yields a Classification
\* whose label is classes[target] when that lookup succeeds and str(target)
\* when there is no lookup table or the lookup fails.
C23_ClassificationLabel ==
    (/\ parser.cls = "ImageClassificationSampleParser"
     /\ plast.op = "get_label"
     /\ cur # NoneV)
    => /\ plast.res.tag = "ok"
       /\ plast.res.v =
             IF cur.label = NoneV THEN NoneV
             ELSE [tag |-> "Classification",
                   label |-> IF LookupSucceeds(parser.classes, cur.label)
                             THEN Lookup(parser.classes, cur.label)
                             ELSE str(cur.label)]

\* classes = ["cat", "dog"] and target 5: the label is "5"
C23_Witness ==
    /\ parser.cls = "ImageClassificationSampleParser"
    /\ parser.classes = <<"cat", "dog">>
    /\ cur # NoneV
    /\ cur.label = PInt(5)
    /\ plast = Call("get_label", Ok([tag |-> "Classification", label |-> "5"]))

\* C29: clear_sample() never fails and leaves the parser in Idle with an
\* empty image cache; a clear_sample() that follows a clear_sample(), and a
\* clear_sample() in Idle, change nothing.
C29_ClearIdempotent ==
    /\ [](plast.op = "clear_sample" =>
             (plast.res = Ok(NoneV) /\ cur = NoneV /\ cache = NoneV))
    /\ [][(plast'.op = "clear_sample" /\ (plast.op = "clear_sample" \/ cur = NoneV))
           => Unchanged(<<parser, cur, cache>>)]_vars
    /\ [](clear_sample(parser.cls, clear_sample(parser.cls, cache)[2])
             = clear_sample(parser.cls, cache))

\* clear_sample() on a tuple-based parser that held a decoded image
C29_Witness ==
    /\ parser.cls \in TupleParsers
    /\ plast.op = "clear_sample"
    /\ stale # NoneV
    /\ cur = NoneV
    /\ cache = NoneV

\* --------------------------------------------------- detection parser claims
\* the Detections get_label() returned last for the record the parser is on
Parsed == plast.op = "get_label" /\ plast.res.tag = "ok" /\ plast.res.v # NoneV
Returned == plast.res.v.detections

\* the variant the priority string, bool, numeric, else gives a value
ExpectedVariant(value) ==
    CASE value.tag = "str" -> "CategoricalAttribute"
      [] value.tag = "bool" -> "BooleanAttribute"
      [] value.tag \in {"int", "float"} -> "NumericAttribute"
      [] OTHER -> "Attribute"

\* C24: every attribute value of every detection is coerced to the one
\* variant the priority string -> Categorical, bool -> Boolean,
\* numeric -> Numeric, else -> Opaque gives it, under its own name and
\* holding the value: True gives Boolean, "red" Categorical, 3.5 Numeric, a
\* nested list Opaque.
C24_AttributeCoercion ==
    (Parsed /\ parser.attributes_field # NoneV) =>
        \A i \in 1..Len(cur.label.objs) :
            LET given == dict_get(cur.label.objs[i].attributes, PDict).items
                got == Returned[i].attributes.items
            IN  /\ Len(got) = Len(given)
                /\ \A j \in 1..Len(given) :
                      got[j] = <<given[j][1],
                                 [tag |-> ExpectedVariant(given[j][2]),
                                  value |-> given[j][2]]>>
                /\ \A j \in 1..Len(given) :
                      /\ given[j][2] = PBool(TRUE) => got[j][2].tag = "BooleanAttribute"
                      /\ given[j][2] = PStr("red") => got[j][2].tag = "CategoricalAttribute"
                      /\ given[j][2] = PFloat("3.5") => got[j][2].tag = "NumericAttribute"
                      /\ given[j][2] = NestedList => got[j][2].tag = "Attribute"

\* a detection parsed with a boolean, a string, a float and a nested list
\* among its attributes
C24_Witness ==
    /\ Parsed
    /\ parser.attributes_field # NoneV
    /\ \E i \in 1..Len(Returned) :
          Returned[i].attributes.items =
              << <<"occluded", [tag |-> "BooleanAttribute", value |-> PBool(TRUE)]>>,
                 <<"color", [tag |-> "CategoricalAttribute", value |-> PStr("red")]>>,
                 <<"score", [tag |-> "NumericAttribute", value |-> PFloat("3.5")]>>,
                 <<"parts", [tag |-> "Attribute", value |-> NestedList]>> >>

\* q is the quotient v / k
IsQuotient(q, v, k) == q.tag = "float" /\ q.num * den_of(v) * k = num_of(v) * q.den

\* C25: with normalized=False, every detection of the record gets the
\* bounding box [x/W, y/H, w/W, h/H] of its absolute box [x, y, w, h], W and
\* H being the width and height of the record's image; a 200x100 image and
\* [20, 10, 40, 20] give [0.1, 0.1, 0.2, 0.2].
C25_BoxNormalization ==
    (Parsed /\ ~parser.normalized) =>
        \A i \in 1..Len(cur.label.objs) :
            LET box == cur.label.objs[i].bounding_box
                got == Returned[i].bounding_box
                W == shape(parse_image(cur.image)).width
                H == shape(parse_image(cur.image)).height
            IN  /\ Len(Returned) = Len(cur.label.objs)
                /\ IsQuotient(got[1], box[1], W)
                /\ IsQuotient(got[2], box[2], H)
                /\ IsQuotient(got[3], box[3], W)
                /\ IsQuotient(got[4], box[4], H)
                /\ (W = 200 /\ H = 100 /\ box = PixelBox) =>
                      got = <<Float(1, 10), Float(1, 10), Float(1, 5), Float(1, 5)>>

\* two detections of a 200x100 image parsed with normalized=False, the first
\* from the box [20, 10, 40, 20]
C25_Witness ==
    /\ Parsed
    /\ ~parser.normalized
    /\ cur.image = Path("p1")
    /\ Len(Returned) = 2
    /\ cur.label.objs[1].bounding_box = PixelBox
    /\ Returned[1].bounding_box = <<Float(1, 10), Float(1, 10), Float(1, 5), Float(1, 5)>>
    /\ cur.label.objs[2].bounding_box # PixelBox

\* a number of [0, 1]
InUnitInterval(v) == 0 <= num_of(v) /\ num_of(v) <= den_of(v)

\* C26: every Detection get_label() produces, with normalized=True as with
\* normalized=False and whatever the input box, has a bounding box whose
\* four coordinates lie in [0, 1].
C26_BoxesInUnitSquare ==
    Parsed => \A i \in 1..Len(Returned) :
                 \A k \in 1..4 : InUnitInterval(Returned[i].bounding_box[k])

\* ----------------------------------------------------------- schema claims
\* whether a field matches a filter: any field when there is none, a field of
\* that kind for a field class, an embedded field whose document class is
\* the filter class or a subclass of it for a document class
MatchesFilter(f, filter) ==
    IF filter = "None" THEN TRUE
    ELSE IF filter \in BaseFieldClasses THEN f.ft = filter
    ELSE f.ft = "EmbeddedDocumentField" /\ filter \in Superclasses(f.document_type)

\* the position of a name in the schema order
PositionOf(name) == CHOOSE i \in 1..Len(fields_ordered) : fields_ordered[i] = name

\* C27: get_fields(filter) returns exactly the fields of the schema that
\* match the filter, each once and in schema order (all of them with no
\* filter); an embedded field matches a document class iff its own document
\* class is that class or a subclass; the call changes neither the schema
\* nor the Sample.
C27_GetFieldsFilter ==
    /\ [](slast.op = "get_fields" =>
             /\ slast.res.tag = "ok"
             /\ {slast.res.v[i] : i \in 1..Len(slast.res.v)}
                   = {n \in DOMAIN fields : MatchesFilter(fields[n], slast.name)}
             /\ \A i, j \in 1..Len(slast.res.v) :
                   i < j => PositionOf(slast.res.v[i]) < PositionOf(slast.res.v[j])
             /\ slast.name = "None" => slast.res.v = fields_ordered)
    /\ [][slast'.op = "get_fields" =>
             Unchanged(<<fields, fields_ordered, sample, saves>>)]_vars

\* get_fields(Label) listing a Classification field and a Label field in the
\* order they were added, and not the metadata field
C27_Witness ==
    /\ slast.op = "get_fields"
    /\ slast.name = "Label"
    /\ Len(created) = 2
    /\ slast.res = Ok(created)
    /\ fields[created[1]] = Field("EmbeddedDocumentField", "Classification")
    /\ fields[created[2]] = Field("EmbeddedDocumentField", "Label")

\* C28: add_field(name, kind) of a name that is not in the schema, with a
\* kind that is no field class, fails with the invalid-field-type error and
\* leaves the schema as it was: the name is not in it, and add_field of that
\* name with a field class then succeeds.
C28_InvalidKindRejected ==
    [][(/\ slast'.op = "add_field" /\ nops' # nops
        /\ slast'.name \notin DOMAIN fields
        /\ slast'.value.s \notin BaseFieldClasses)
       => (/\ slast'.res = Err("InvalidFieldType")
           /\ Unchanged(<<fields, fields_ordered, sample>>)
           /\ slast'.name \notin DOMAIN fields'
           /\ add_field(fields', fields_ordered', slast'.name, "StringField", "None").res
                 = Ok(NoneV))]_vars

\* add_field("gt", <no field class>) was rejected, and add_field("gt",
\* StringField) then created the field
C28_Witness ==
    /\ slast.op = "add_field"
    /\ slast.name = "gt"
    /\ slast.value = PStr("StringField")
    /\ slast.res = Ok(NoneV)
    /\ created = <<"gt">>
    /\ nops = 2
    /\ fields["gt"] = Field("StringField", "None")

\* the final path component of a filepath, as a read returns it
FinalComponent(path) == IF path.tag = "str" THEN Ok(PStr(basename(path.s))) ELSE Absent

\* C30: in every state filename reads as the final path component of the
\* Sample's filepath, and every write of filename, by set_field, item or
\* attribute assignment, fails and leaves filepath and filename as they were.
C30_FilenameDerived ==
    /\ [](getitem(fields, sample, "filename").res = FinalComponent(sample.data["filepath"]))
    /\ [][(slast'.op \in WriteOps /\ slast'.name = "filename" /\ nops' # nops)
           => (/\ slast'.res.tag = "err"
               /\ Unchanged(<<sample>>))]_vars

\* C39: with a tuple-based parser, in every state reached by with_sample,
\* clear_sample and the accessors, a non-empty image cache means that a
\* current record is set and that the cache holds the decode of that record's
\* image component; with no current record the cache is empty.
C39_CacheInvariant ==
    parser.cls \in TupleParsers
    => (/\ cache # NoneV => (cur # NoneV /\ cache = parse_image(cur.image))
        /\ cur = NoneV => cache = NoneV)

\* a second record was positioned and its image, read from its path, is cached
C39_Witness ==
    /\ parser.cls \in TupleParsers
    /\ stale # NoneV
    /\ cur # NoneV
    /\ is_str(cur.image)
    /\ cache = read(cur.image.s)
    /\ cache # stale

\* -------------------------------------------------- later ingestion claims
\* C36: the image labels parser declares label_cls None exactly when expand
\* is set and the ImageLabels class otherwise; add_labeled_images called with
\* expand_schema=True and an expanding image labels parser creates no field
\* before the first record and hands the Samples on with expand_schema still
\* True.
C36_ExpandingParserNotPreCreated ==
    /\ [](parser.cls = "ImageLabelsSampleParser"
          => (/\ label_cls(parser) = "None" <=> parser.expand
              /\ ~parser.expand => label_cls(parser) = "ImageLabels"))
    /\ [][(/\ run'.n # run.n
           /\ run'.op = "add_labeled_images"
           /\ run'.expand_schema
           /\ parser.cls = "ImageLabelsSampleParser"
           /\ parser.expand)
          => (/\ Unchanged(<<fields, fields_ordered, ensured>>)
              /\ run'.status = "running"
              /\ run'.expand)]_vars

\* such a call has handed its first Sample on: label_field was not created,
\* the field of the expanded label was
C36_Witness ==
    /\ run.op = "add_labeled_images"
    /\ run.expand_schema
    /\ run.expand
    /\ parser.cls = "ImageLabelsSampleParser"
    /\ parser.expand
    /\ run.status = "running"
    /\ pos = 1
    /\ ensured = <<>>
    /\ run.label_field \notin DOMAIN fields
    /\ "objs" \in DOMAIN fields

C40_ItemAssignmentCreates ==
    /\ [][(slast'.op = "__setitem__" /\ nops' # nops)
          => LET a == set_field(fields, fields_ordered, sample,
                                slast'.name, slast'.value, TRUE)
             IN  /\ fields' = a.fields
                 /\ fields_ordered' = a.order
                 /\ sample' = a.smp
                 /\ saves' = saves + a.saved
                 /\ slast'.res = a.res
                 /\ slast'.res # Err("NoSuchField")
                 /\ (/\ ~startswith_underscore(slast'.name)
                     /\ hasattr(fields, sample, slast'.name) = Ok(FALSE)
                     /\ slast'.value.tag \in SupportedTags)
                    => (/\ slast'.res = Ok(NoneV)
                        /\ slast'.name \notin DOMAIN fields
                        /\ fields'[slast'.name] = KindOf(slast'.value)
                        /\ sample'.data[slast'.name] = slast'.value)]_vars
    /\ [][(slast'.res = Err("NoSuchField") /\ nops' # nops)
          => (slast'.op = "set_field" /\ ~slast'.create)]_vars

\* sample["gt"] = "a" created a String field and stored "a" in it
C40_Witness ==
    /\ slast.op = "__setitem__"
    /\ slast.name = "gt"
    /\ slast.value = PStr("a")
    /\ slast.res = Ok(NoneV)
    /\ created = <<"gt">>
    /\ fields["gt"] = Field("StringField", "None")
    /\ sample.data["gt"] = PStr("a")

\* -------------------------------------------------- later parser claims
\* the target keys of a mapping source-field -> target-key
TargetKeys(sel) == {sel.items[i][2] : i \in 1..Len(sel.items)}
\* the source field mapped last to a target key
LastSource(sel, key) ==
    sel.items[CHOOSE i \in 1..Len(sel.items) :
                /\ sel.items[i][2] = key
                /\ \A j \in (i + 1)..Len(sel.items) : sel.items[j][2] # key][1]

\* C35: with a current Sample, get_label of the store-native labeled parser
\* returns the value of the configured field when it was given a field name,
\* and, when it was given a mapping, a mapping with exactly one entry per
\* configured pair, keyed by the pair's target key and holding the value of
\* its source field; get_label leaves the current Sample as it is.
C35_SelectedLabels ==
    /\ []((/\ parser.cls = "FiftyOneLabeledImageSampleParser"
           /\ plast.op = "get_label"
           /\ cur # NoneV)
          => LET sel == parser.label_field_or_dict
             IN  IF sel.tag = "str"
                 THEN plast.res = Ok(sample_getitem(cur, sel.s))
                 ELSE /\ plast.res.tag = "ok"
                      /\ plast.res.v.tag = "dict"
                      /\ Len(plast.res.v.items) = Len(sel.items)
                      /\ \A i \in 1..Len(sel.items) :
                            \E j \in 1..Len(plast.res.v.items) :
                                plast.res.v.items[j] =
                                    <<sel.items[i][2], sample_getitem(cur, sel.items[i][1])>>)
    /\ [][(parser.cls = "FiftyOneLabeledImageSampleParser" /\ plast'.op = "get_label")
          => Unchanged(<<cur, parser>>)]_vars

\* C35 as amended: the mapping returned has exactly one entry per distinct
\* target key, holding the value of the source field mapped to that key last.
C35_SelectedLabelsAmended ==
    /\ []((/\ parser.cls = "FiftyOneLabeledImageSampleParser"
           /\ plast.op = "get_label"
           /\ cur # NoneV)
          => LET sel == parser.label_field_or_dict
             IN  IF sel.tag = "str"
                 THEN plast.res = Ok(sample_getitem(cur, sel.s))
                 ELSE /\ plast.res.tag = "ok"
                      /\ plast.res.v.tag = "dict"
                      /\ Len(plast.res.v.items) = Cardinality(TargetKeys(sel))
                      /\ \A key \in TargetKeys(sel) :
                            \E j \in 1..Len(plast.res.v.items) :
                                plast.res.v.items[j] =
                                    <<key, sample_getitem(cur, LastSource(sel, key))>>)
    /\ [][(parser.cls = "FiftyOneLabeledImageSampleParser" /\ plast'.op = "get_label")
          => Unchanged(<<cur, parser>>)]_vars

\* a mapping of two source fields to two target keys gave two entries
C35_Witness ==
    /\ parser.cls = "FiftyOneLabeledImageSampleParser"
    /\ parser.label_field_or_dict.tag = "dict"
    /\ Cardinality(TargetKeys(parser.label_field_or_dict)) = 2
    /\ plast.op = "get_label"
    /\ cur # NoneV
    /\ cur.gt # NoneV
    /\ plast.res = Ok([tag |-> "dict",
                       items |-> << <<"k1", cur.gt>>, <<"k2", cur.pred>> >>])

\* ================================ collections.py: SampleCollection.export
\* samples of a collection that the model exports
MaxSamples == 3

\* the label classes export() tells apart, and one it does not know
ExportLabelClasses == {"ClassificationLabel", "DetectionLabels", "ImageLabels", "Label"}
ExportGroups == {"ground_truth"}

\* a sample of the collection: its filepath and its label in each group
ExportSample(filepath, label) ==
    [tag |-> "Sample", filepath |-> filepath,
     labels |-> [g \in ExportGroups |-> label]]
ExportLabels == {NoneV} \cup {[tag |-> "label", cls |-> c] : c \in ExportLabelClasses}
Collections ==
    UNION {{[i \in 1..n |-> ExportSample(str(PInt(i)), ls[i])] : ls \in [1..n -> ExportLabels]} :
             n \in 0..MaxSamples}

\* isinstance(label, fol.<cls>)
isinstance_label(label, cls) == label # NoneV /\ label.cls = cls

\* for sample in self.iter_samples(): the filepaths and the labels of the group
export_data_paths(samples) == [i \in 1..Len(samples) |-> samples[i].filepath]
export_labels(samples, group) == [i \in 1..Len(samples) |-> samples[i].labels[group]]

\* an exporter call: the function and the paths and labels it is given
ExporterCall(fn, data_paths, labels) ==
    [fn |-> fn, data_paths |-> data_paths, labels |-> labels]

\* export(group, export_dir): [calls: the exporters invoked, in order,
\*                             res: the outcome]
ExportOut(calls, res) == [tag |-> "export", calls |-> calls, res |-> res]
export(samples, group) ==
    LET data_paths == export_data_paths(samples)
        labels == export_labels(samples, group)
        first == IF isinstance_label(labels[1], "ClassificationLabel")
                 THEN <<ExporterCall("export_image_classification_dataset",
                                     data_paths, labels)>>
                 ELSE <<>>
    IN  IF labels = <<>> THEN ExportOut(<<>>, Ok(NoneV))
        ELSE IF isinstance_label(labels[1], "DetectionLabels")
        THEN ExportOut(Append(first, ExporterCall("export_image_detection_dataset",
                                                  data_paths, labels)), Ok(NoneV))
        ELSE IF isinstance_label(labels[1], "ImageLabels")
        THEN ExportOut(Append(first, ExporterCall("export_image_labels_dataset",
                                                  data_paths, labels)), Ok(NoneV))
        ELSE ExportOut(first, Err("CannotExport"))

\* collection.export(group, export_dir)
Export(group) ==
    /\ exported = NoExport
    /\ exported' = export(store, group)
    /\ UNCHANGED <<other, workers>>
    /\ UNCHANGED pvars
    /\ UNCHANGED svars
    /\ UNCHANGED ivars

\* a collection of up to MaxSamples samples, not exported yet
ExportInit ==
    /\ store \in Collections
    /\ parser = Config("ImageSampleParser", NoClasses, TRUE, TRUE, NoSelector, FALSE)
    /\ cur = NoneV
    /\ cache = NoneV
    /\ decodes = 0
    /\ uses = 0
    /\ stale = NoneV
    /\ plast = Call("__init__", Ok(NoneV))
    /\ fields = DeclaredFields
    /\ fields_ordered = DeclaredOrder
    /\ sample = NewSample(PStr("a"), FALSE)
    /\ saves = 0
    /\ created = <<>>
    /\ slast = SCall("__init__", "filepath", PStr("a"), FALSE, Ok(NoneV))
    /\ nops = 0
    /\ source = <<>>
    /\ run = NoRun
    /\ pos = 0
    /\ positioned = <<>>
    /\ built = NoneV
    /\ ensured = <<>>
    /\ other = NewSample(PStr("d/b"), FALSE)
    /\ workers = NoWorkers
    /\ exported = NoExport

ExportNext == \E group \in ExportGroups : Export(group)

\* one export of a collection
SpecExport == ExportInit /\ [][ExportNext]_vars

\* the exporter of each label class export() knows
ExporterOf(cls) ==
    CASE cls = "ClassificationLabel" -> "export_image_classification_dataset"
      [] cls = "DetectionLabels" -> "export_image_detection_dataset"
      [] cls = "ImageLabels" -> "export_image_labels_dataset"
FirstLabel == store[1].labels["ground_truth"]
Exportable(label) ==
    label # NoneV /\ label.cls \in {"ClassificationLabel", "DetectionLabels", "ImageLabels"}

\* C38: export() of an empty collection invokes no exporter and returns; of a
\* non-empty collection whose first label is a classification, detection or
\* image labels instance it invokes exactly the exporter of that class, with
\* all paths and labels, and returns; it raises the cannot-export error
\* exactly when the first label is of none of these classes, and then invokes
\* no exporter.
C38_ExportDispatch ==
    exported # NoExport
    => IF store = <<>> THEN exported.calls = <<>> /\ exported.res = Ok(NoneV)
       ELSE IF Exportable(FirstLabel)
       THEN /\ Len(exported.calls) = 1
            /\ exported.calls[1] =
                  ExporterCall(ExporterOf(FirstLabel.cls), export_data_paths(store),
                               export_labels(store, "ground_truth"))
            /\ exported.res = Ok(NoneV)
       ELSE /\ exported.calls = <<>>
            /\ exported.res = Err("CannotExport")

\* ======================== two Samples of one collection share its schema
\* the effect of a call made on the second Sample: _fields and
\* _fields_ordered belong to the class, the data to the instance
ApplyOther(F, O, smp, saved, name) ==
    /\ nops < MaxOps
    /\ nops' = nops + 1
    /\ fields' = F
    /\ fields_ordered' = O
    /\ other' = smp
    /\ saves' = saves + saved
    /\ created' = IF DOMAIN F # DOMAIN fields THEN Append(created, name) ELSE created
    /\ UNCHANGED <<sample, workers, exported>>
    /\ UNCHANGED pvars
    /\ UNCHANGED ivars

OtherSetField(name, value, create) ==
    LET a == set_field(fields, fields_ordered, other, name, value, create)
    IN  /\ ApplyOther(a.fields, a.order, a.smp, a.saved, name)
        /\ slast' = [SCall("set_field", name, value, create, a.res) EXCEPT !.on = "other"]

OtherSetAttr(name, value) ==
    LET a == setattr(fields, other, name, value)
    IN  /\ ApplyOther(fields, fields_ordered, a.smp, a.saved, name)
        /\ slast' = [SCall("__setattr__", name, value, FALSE, a.res) EXCEPT !.on = "other"]

SharedNames == {"gt", "filename"}
SharedValues == {NoneV, PBool(TRUE), PStr("a")}

SharedNext ==
    \/ \E name \in SharedNames, value \in SharedValues, create \in BOOLEAN :
            SetField(name, value, create)
    \/ \E name \in SharedNames, value \in SharedValues, create \in BOOLEAN :
            OtherSetField(name, value, create)
    \/ \E name \in SharedNames, value \in SharedValues : OtherSetAttr(name, value)
    \/ \E name \in SharedNames, ft \in CallFieldTypes : AddField(name, ft)

\* two Samples of one collection, written in turn
SpecShared == SampleInit /\ [][SharedNext]_vars

\* the outcome of a write of value to a field of the schema
Validated(field, value) ==
    IF value # NoneV /\ ~validate(field, value) THEN Err("ValidationError") ELSE Ok(NoneV)

\* C34: when set_field(name, v, create=True) on one Sample has created a
\* field, its kind is the one inferred from v and it is in the schema every
\* Sample of the collection uses: on the other Sample set_field(name, v2,
\* create=False) does not fail with the unknown-field error, it succeeds or
\* fails as v2 fits the inferred kind or not, and add_field(name, ...) fails as
\* a duplicate.  Later calls find the field unchanged: a write without create
\* of a name in the schema, on either Sample, is decided by the kind in the
\* schema, and add_field of such a name fails.
C34_SchemaShared ==
    /\ [][(/\ slast'.op = "set_field" /\ slast'.create /\ nops' # nops
           /\ slast'.name \notin DOMAIN fields
           /\ slast'.name \in DOMAIN fields')
          => LET n == slast'.name
                 B == IF slast'.on = "sample" THEN other' ELSE sample'
             IN  /\ fields'[n] = KindOf(slast'.value)
                 /\ \A v2 \in SharedValues :
                      /\ set_field(fields', fields_ordered', B, n, v2, FALSE).res
                            # Err("NoSuchField")
                      /\ set_field(fields', fields_ordered', B, n, v2, FALSE).res
                            = Validated(KindOf(slast'.value), v2)
                 /\ \A ft \in CallFieldTypes :
                      add_field(fields', fields_ordered', n, ft[1], ft[2]).res
                            = Err("FieldExists")]_vars
    /\ [][\A n \in DOMAIN fields : n \in DOMAIN fields' /\ fields'[n] = fields[n]]_vars
    /\ [][(/\ slast'.op = "set_field" /\ ~slast'.create /\ nops' # nops
           /\ slast'.name \in DOMAIN fields)
          => slast'.res = Validated(fields[slast'.name], slast'.value)]_vars
    /\ [][(/\ slast'.op = "add_field" /\ nops' # nops
           /\ slast'.name \in DOMAIN fields)
          => slast'.res = Err("FieldExists")]_vars

\* "gt" was created as a Boolean field by set_field("gt", True, create=True)
\* on one Sample; set_field("gt", "a") on the other Sample then failed the
\* validation
C34_Witness ==
    /\ nops = 2
    /\ created = <<"gt">>
    /\ fields["gt"] = Field("BooleanField", "None")
    /\ sample.data["gt"] = PBool(TRUE)
    /\ other.data["gt"] = NoneV
    /\ slast.on = "other"
    /\ slast.op = "set_field"
    /\ ~slast.create
    /\ slast.name = "gt"
    /\ slast.value = PStr("a")
    /\ slast.res = Err("ValidationError")

\* ================== two workers in set_field(name, value, create=True)
\* Nothing in sample.py takes a lock: a call is a sequence of steps, and the
\* steps of two calls may interleave.  Worker 1 writes the Sample `sample`,
\* worker 2 the Sample `other`, both create the field RaceName.
Workers == {1, 2}
RaceName == "gt"
RaceValues == {PBool(TRUE), PStr("a")}

\* a worker: pc, the step its call is at; value, the value it writes; ft, the
\* field type its call inferred; res, the outcome of the finished call;
\* passed: its call found the name absent from the schema (sample.py:226);
\* raced: the call overlapped the other worker's call
Worker(pc, value, ft, res, passed, raced) ==
    [pc |-> pc, value |-> value, ft |-> ft, res |-> res, passed |-> passed,
     raced |-> raced]
IdleWorker == Worker("idle", NoneV, NoneV, NoneV, FALSE, FALSE)
SampleOf(w) == IF w = 1 THEN sample ELSE other
InCall(w) == workers[w].pc \notin {"idle", "done"}

\* set_field up to its hand-over: the error raised, or the step that follows
set_field_enter_ignores_schema(F, smp, name, create) ==
    IF startswith_underscore(name) THEN Err("InvalidFieldName")
    ELSE IF hasattr(F, smp, name).tag = "err" THEN hasattr(F, smp, name)
    ELSE IF hasattr(F, smp, name).v /\ name \notin DOMAIN F THEN Err("ReserveWord")
    ELSE IF create THEN Ok("add_implied_field")
    ELSE Err("NoSuchField")
set_field_enter(F, smp, name, create) ==
    IF startswith_underscore(name) THEN Err("InvalidFieldName")
    ELSE IF hasattr(F, smp, name).tag = "err" THEN hasattr(F, smp, name)
    ELSE IF hasattr(F, smp, name).v /\ name \notin DOMAIN F THEN Err("ReserveWord")
    ELSE IF name \notin DOMAIN F
    THEN IF create THEN Ok("add_implied_field") ELSE Err("NoSuchField")
    ELSE Ok("setattr")

\* _add_implied_field up to its call of add_field: the assertion, then the
\* field type of the value, <<field class, document class>>
implied_field_type(F, name, value) ==
    IF name \in DOMAIN F THEN Err("AssertionError")
    ELSE IF value.tag = "EmbeddedDocument" THEN Ok(<<"EmbeddedDocumentField", value.type>>)
    ELSE IF value.tag = "bool" THEN Ok(<<"BooleanField", "None">>)
    ELSE IF value.tag = "int" THEN Ok(<<"IntField", "None">>)
    ELSE IF value.tag = "str" THEN Ok(<<"StringField", "None">>)
    ELSE IF value.tag \in {"list", "tuple"} THEN Ok(<<"ListField", "None">>)
    ELSE IF value.tag = "dict" THEN Ok(<<"DictField", "None">>)
    ELSE Err("InvalidType")

\* add_field: its two checks
add_field_enter(F, name, ft) ==
    IF name \in DOMAIN F THEN Err("FieldExists")
    ELSE IF ft \notin BaseFieldClasses THEN Err("InvalidFieldType")
    ELSE Ok(NoneV)

\* add_field: the field is built and written to _fields, _fields_ordered and
\* the class, whatever they hold by then
add_field_register(F, O, name, ft, doc) ==
    SchemaOut((name :> Field(ft, IF ft = "EmbeddedDocumentField" THEN doc ELSE "None")) @@ F,
              Append(O, name), Ok(NoneV))

\* a worker's step: its record afterwards; a call that starts while the other
\* worker is in its call, overlaps it
Step(w, rec) ==
    /\ workers' = [u \in Workers |->
                     IF u = w THEN rec
                     ELSE IF workers[w].pc = "idle" /\ InCall(u)
                     THEN [workers[u] EXCEPT !.raced = TRUE]
                     ELSE workers[u]]
    /\ UNCHANGED <<slast, nops, exported>>
    /\ UNCHANGED pvars
    /\ UNCHANGED ivars
Finished(w, res) == [workers[w] EXCEPT !.pc = "done", !.res = res]

\* sample.py:217-232
Enter(w, value) ==
    LET e == set_field_enter(fields, SampleOf(w), RaceName, TRUE)
        me == [workers[w] EXCEPT !.value = value,
                                 !.raced = \E u \in Workers \ {w} : InCall(u)]
    IN  /\ workers[w].pc = "idle"
        /\ Step(w, IF e.tag = "err" THEN [me EXCEPT !.pc = "done", !.res = e]
                   ELSE [me EXCEPT !.pc = e.v, !.passed = (e.v = "add_implied_field")])
        /\ UNCHANGED <<fields, fields_ordered, sample, other, saves, created>>

\* sample.py:239-264
AddImpliedField(w) ==
    LET t == implied_field_type(fields, RaceName, workers[w].value)
    IN  /\ workers[w].pc = "add_implied_field"
        /\ Step(w, IF t.tag = "err" THEN Finished(w, t)
                   ELSE [workers[w] EXCEPT !.pc = "add_field", !.ft = t.v])
        /\ UNCHANGED <<fields, fields_ordered, sample, other, saves, created>>

\* sample.py:176-183
AddFieldEnter(w) ==
    LET c == add_field_enter(fields, RaceName, workers[w].ft[1])
    IN  /\ workers[w].pc = "add_field"
        /\ Step(w, IF c.tag = "err" THEN Finished(w, c)
                   ELSE [workers[w] EXCEPT !.pc = "register"])
        /\ UNCHANGED <<fields, fields_ordered, sample, other, saves, created>>

\* sample.py:185-201
AddFieldRegister(w) ==
    LET a == add_field_register(fields, fields_ordered, RaceName,
                                workers[w].ft[1], workers[w].ft[2])
    IN  /\ workers[w].pc = "register"
        /\ Step(w, [workers[w] EXCEPT !.pc = "setattr"])
        /\ fields' = a.fields
        /\ fields_ordered' = a.order
        /\ created' = Append(created, RaceName)
        /\ UNCHANGED <<sample, other, saves>>

\* sample.py:234, 121-150
WorkerSetAttr(w) ==
    LET a == setattr(fields, SampleOf(w), RaceName, workers[w].value)
    IN  /\ workers[w].pc = "setattr"
        /\ Step(w, Finished(w, a.res))
        /\ sample' = IF w = 1 THEN a.smp ELSE sample
        /\ other' = IF w = 2 THEN a.smp ELSE other
        /\ saves' = saves + a.saved
        /\ UNCHANGED <<fields, fields_ordered, created>>

\* two workers about to call set_field on a collection with the declared
\* fields only
RaceInit ==
    /\ workers = [w \in Workers |-> IdleWorker]
    /\ fields = DeclaredFields
    /\ fields_ordered = DeclaredOrder
    /\ sample \in {NewSample(PStr("a"), db) : db \in BOOLEAN}
    /\ other \in {NewSample(PStr("d/b"), db) : db \in BOOLEAN}
    /\ saves = 0
    /\ created = <<>>
    /\ slast = SCall("__init__", "filepath", PStr("a"), FALSE, Ok(NoneV))
    /\ nops = 0
    /\ parser = Config("ImageSampleParser", NoClasses, TRUE, TRUE, NoSelector, FALSE)
    /\ cur = NoneV
    /\ cache = NoneV
    /\ decodes = 0
    /\ uses = 0
    /\ stale = NoneV
    /\ plast = Call("__init__", Ok(NoneV))
    /\ source = <<>>
    /\ run = NoRun
    /\ pos = 0
    /\ positioned = <<>>
    /\ built = NoneV
    /\ store = <<>>
    /\ ensured = <<>>
    /\ exported = NoExport

RaceNext ==
    \/ \E w \in Workers, value \in RaceValues : Enter(w, value)
    \/ \E w \in Workers : AddImpliedField(w)
    \/ \E w \in Workers : AddFieldEnter(w)
    \/ \E w \in Workers : AddFieldRegister(w)
    \/ \E w \in Workers : WorkerSetAttr(w)

\* two workers, each in one set_field(RaceName, value, create=True)
SpecRace == RaceInit /\ [][RaceNext]_vars

\* the entries of _fields_ordered for a name
Descriptors(name) == {i \in 1..Len(fields_ordered) : fields_ordered[i] = name}
BothDone == \A w \in Workers : workers[w].pc = "done"
Serialized == \A w \in Workers : ~workers[w].raced

\* C32: a set_field(name, v, create=True) call fails with the field-exists
\* error or the not-already-present assertion only when its call overlapped
\* the other worker's and both found the name absent from the schema; when
\* the two calls did not overlap, the schema ends with exactly one descriptor
\* for the name and both calls succeed (with values of one kind; with values
\* of different kinds the later call fails the validation of the kind the
\* earlier one created).
C32_CheckThenAct ==
    /\ \A w \in Workers :
          workers[w].res \in {Err("FieldExists"), Err("AssertionError")}
          => (/\ workers[w].raced
              /\ \A u \in Workers : workers[u].passed)
    /\ (BothDone /\ Serialized)
       => (/\ RaceName \in DOMAIN fields
           /\ Cardinality(Descriptors(RaceName)) = 1
           /\ \A w \in Workers :
                \/ workers[w].res = Ok(NoneV)
                \/ /\ workers[w].res = Err("ValidationError")
                   /\ workers[1].value.tag # workers[2].value.tag
           /\ workers[1].value = workers[2].value
              => \A w \in Workers : workers[w].res = Ok(NoneV))

\* both workers found the name absent; one created the field and the other
\* one's creation then failed with the field-exists error
C32_Witness ==
    /\ BothDone
    /\ \A w \in Workers : workers[w].passed /\ workers[w].raced
    /\ workers[1].value = workers[2].value
    /\ workers[1].res = Ok(NoneV)
    /\ workers[2].res = Err("FieldExists")
    /\ Cardinality(Descriptors(RaceName)) = 1

\* ========================= two consumers of one parser instance
\* Each consumer positions the parser on its own record and then calls
\* accessors; the calls of the two consumers interleave.
Consumers == {1, 2}
ConsumerOps == {"get_image_path", "get_label", "get_image"}

\* a consumer: rec, the record it works on; pc, "idle" until it has
\* positioned the parser; got, the accessor it called last since then and
\* what it returned (None when it called none)
Consumer(rec, pc, got) == [rec |-> rec, pc |-> pc, got |-> got]
NothingGot == NoneV

\* the accessor op on the parser as it is: [res, cache, n, asked]
accessor(op, cfg, c, ch) ==
    CASE op = "get_image_path" -> Out(get_image_path(cfg, c), ch, 0)
      [] op = "get_label" -> get_label(cfg, c, ch)
      [] OTHER -> get_image(cfg, c, ch)

\* consumer c calls with_sample(its record)
Position(c) ==
    /\ cur' = with_sample(parser.cls, cache, workers[c].rec)[1]
    /\ cache' = with_sample(parser.cls, cache, workers[c].rec)[2]
    /\ decodes' = 0
    /\ uses' = 0
    /\ stale' = cache
    /\ plast' = Call("with_sample", Ok(NoneV))
    /\ workers' = [workers EXCEPT ![c] = Consumer(workers[c].rec, "positioned", NothingGot)]
    /\ UNCHANGED <<parser, other, exported>>
    /\ UNCHANGED svars
    /\ UNCHANGED ivars

\* consumer c, having positioned the parser, calls an accessor
Access(c, op) ==
    LET out == accessor(op, parser, cur, cache)
    IN  /\ workers[c].pc = "positioned"
        /\ op = "get_label" => parser.cls \in LabeledParsers
        /\ decodes + out.n <= MaxDecodes
        /\ uses + out.asked <= MaxUses
        /\ cache' = out.cache
        /\ decodes' = decodes + out.n
        /\ uses' = uses + out.asked
        /\ plast' = Call(op, out.res)
        /\ workers' = [workers EXCEPT ![c].got = Call(op, out.res)]
        /\ UNCHANGED <<parser, cur, stale, other, exported>>
        /\ UNCHANGED svars
        /\ UNCHANGED ivars

\* the image or path of a record
image_or_path(cls, r) ==
    IF cls = "ImageSampleParser" THEN r
    ELSE IF cls \in TupleParsers THEN r.image ELSE Path(r.filepath)

\* the records of the two consumers: the first one's has the path p1, the
\* second one's another path or an image in memory
ConsumerRecords(cls) ==
    {p \in IngestRecords(cls) \X IngestRecords(cls) :
        /\ image_or_path(cls, p[1]) = Path("p1")
        /\ image_or_path(cls, p[2]) # Path("p1")}

\* the records of two consumers: two different records of the parser's kind
ConsumerInit ==
    /\ parser \in ParserConfigs
    /\ workers \in {[c \in Consumers |-> Consumer(rs[c], "idle", NothingGot)] :
                      rs \in ConsumerRecords(parser.cls)}
    /\ cur = NoneV
    /\ cache = NoneV
    /\ decodes = 0
    /\ uses = 0
    /\ stale = NoneV
    /\ plast = Call("__init__", Ok(NoneV))
    /\ fields = DeclaredFields
    /\ fields_ordered = DeclaredOrder
    /\ sample = NewSample(PStr("a"), FALSE)
    /\ saves = 0
    /\ created = <<>>
    /\ slast = SCall("__init__", "filepath", PStr("a"), FALSE, Ok(NoneV))
    /\ nops = 0
    /\ source = <<>>
    /\ run = NoRun
    /\ pos = 0
    /\ positioned = <<>>
    /\ built = NoneV
    /\ store = <<>>
    /\ ensured = <<>>
    /\ other = NewSample(PStr("d/b"), FALSE)
    /\ exported = NoExport

ConsumerNext ==
    \/ \E c \in Consumers : Position(c)
    \/ \E c \in Consumers, op \in ConsumerOps : Access(c, op)

\* two consumers sharing one parser instance
SpecConsumers == ConsumerInit /\ [][ConsumerNext]_vars

\* what the accessor op returns for the record r alone, on a parser that was
\* positioned on nothing else
Alone(op, r) == accessor(op, parser, r, NoneV).res

\* C33: an accessor called by a consumer returns the data of the record the
\* parser was positioned on last, whichever consumer positioned it: the
\* consumer's own record if no with_sample of the other consumer came
\* between, the other consumer's record otherwise.
C33_SharedCursor ==
    [][\A c \in Consumers :
         (workers'[c].got # NoneV /\ plast' = workers'[c].got /\ workers'[c] # workers[c])
         => (/\ cur \in {workers[1].rec, workers[2].rec}
             /\ workers'[c].got.res = Alone(workers'[c].got.op, cur)
             /\ cur = workers[c].rec
                => workers'[c].got.res = Alone(workers'[c].got.op, workers[c].rec))]_vars

\* consumer 1 positioned the parser on its record, consumer 2 repositioned
\* it and read the image, and get_image() of consumer 1 then returned the
\* memoized image of consumer 2's record, not the image of its own
C33_Witness ==
    /\ workers[1].pc = "positioned"
    /\ workers[2].pc = "positioned"
    /\ parser.cls \in TupleParsers
    /\ cur = workers[2].rec
    /\ workers[2].got = Call("get_image", Ok(read("p2")))
    /\ workers[1].got = Call("get_image", Ok(read("p2")))
    /\ workers[1].got.res = Alone("get_image", workers[2].rec)
    /\ workers[1].got.res # Alone("get_image", workers[1].rec)
    /\ decodes = 1

====
